---- MODULE Spec2Model ----
(***************************************************************************)
(* Token / counter lifecycle (models/Token.js, models/Counter.js,          *)
(* controllers/tokenController.js, controllers/customerController.js) and  *)
(* the project queue (models/Queue.js, services/queueService.js,           *)
(* controllers/projectController.js) of the queue management system.       *)
(*                                                                         *)
(* Documents are records; a collection is a sequence (tokens, in insertion *)
(* order, the index being the _id) or a function over the ids (counters,   *)
(* projects, queues).  All modelled tokens belong to one business date     *)
(* (the local calendar day), so the businessDate range filters of the      *)
(* queries always match and are not written out.                           *)
(***************************************************************************)
EXTENDS Integers, Sequences, FiniteSets, TLC

\* ------------------------------------------------------------------ bounds
MaxTokens == 3          \* tokens ever issued in a run
MaxPrio == 2            \* priorities used as inputs are 1..MaxPrio
MaxTransfers == 1       \* transferHistory entries per token
MaxTimers == 1          \* pending auto-call timers per counter
MaxClock == 1           \* logical clock values 0..MaxClock
LifeTokens == 2          \* tokens issued in the runs of Spec
MaxProjects == 3        \* projects ever created in a run
QueueCapacity == 2      \* capacity given to the queues
BusyProjects == 2       \* projects created in the runs of SpecTwoQueues
MaxCron == 2            \* cron tasks created under one name in a run

\* ------------------------------------------------------- program constants
PriorityMin == 1        \* tokenSchema.priority.min
PriorityMax == 10       \* tokenSchema.priority.max
PadWidth == 3           \* padStart(3, '0')

None == "none"          \* an unset reference (undefined / null)
NoToken == 0            \* an unset token reference; token ids are 1, 2, ...
NoPos == 0              \* an unset queuePosition
Unset == -1             \* an unset timestamp
Depts == {"d1", "d2"}
CounterIds == {"c1", "c2"}
Customers == {"u1", "u2"}
Prios == 1..MaxPrio
QueueIds == {"q1", "q2"}
ProjectIds == 1..MaxProjects
QueueTypes == {"fifo", "lifo", "priority", "weighted", "round_robin", "custom"}

VARIABLES tokens, counters, now, utcRolled, pendingAutoCall, pendingResume, ret,
          issue, calls, adds, runs, scheduler, projects, queues

tokenVars == <<tokens, counters, now, utcRolled, pendingAutoCall, pendingResume>>
procVars == <<issue, calls, adds, runs, scheduler>>
queueVars == <<projects, queues>>
vars == <<tokens, counters, now, utcRolled, pendingAutoCall, pendingResume, ret,
          issue, calls, adds, runs, scheduler, projects, queues>>

TokenIds == DOMAIN tokens

\* ------------------------------------------------------------ Token schema
TokenStatuses == {"waiting", "called", "in_service", "completed",
                  "cancelled", "no_show", "transferred"}

ActiveStatuses == {"waiting", "called", "in_service"}

IsActive(t) == t.status \in ActiveStatuses

\* the validators of save() without min / max on priority
ValidTokenAnyPriority(t) ==
    /\ t.status \in TokenStatuses
    /\ (t.queuePosition # NoPos => t.queuePosition >= 1)
    /\ t.createdBy # None
    /\ t.customer # None
    /\ t.department # None

\* Schema validation run by save(): enum on status, min/max on priority and
\* queuePosition, required paths (tokenNumber and displayNumber are always
\* supplied by the callers modelled here).
ValidToken(t) ==
    /\ t.status \in TokenStatuses
    /\ t.priority >= PriorityMin /\ t.priority <= PriorityMax
    /\ (t.queuePosition # NoPos => t.queuePosition >= 1)
    /\ t.createdBy # None
    /\ t.customer # None
    /\ t.department # None

\* ------------------------------------------------- token number formatting
RECURSIVE Digits(_)
Digits(n) == IF n < 10 THEN <<n>> ELSE Append(Digits(n \div 10), n % 10)

\* String(n).padStart(3, '0')
PadStart(n) ==
    LET d == Digits(n)
    IN  IF Len(d) >= PadWidth THEN d
        ELSE [i \in 1..(PadWidth - Len(d)) |-> 0] \o d

\* parseInt of a digit string
RECURSIVE ParseInt(_)
ParseInt(d) ==
    IF Len(d) = 0 THEN 0
    ELSE 10 * ParseInt(SubSeq(d, 1, Len(d) - 1)) + d[Len(d)]

\* string order used by sort({ tokenNumber: -1 })
StrLess(a, b) ==
    \/ \E k \in 1..Len(a) :
          /\ k <= Len(b)
          /\ \A j \in 1..(k - 1) : a[j] = b[j]
          /\ a[k] < b[k]
    \/ /\ Len(a) < Len(b)
       /\ \A j \in 1..Len(a) : a[j] = b[j]

\* date part of the prefix: date.toISOString() is the UTC calendar day, which
\* is the business day (0) or, once UTC midnight has passed, the next one (1)
DateStr == IF utcRolled THEN 1 ELSE 0

\* tokenSchema.statics.generateTokenNumber
GenerateTokenNumber(dept) ==
    LET matching == {i \in TokenIds :
                        /\ tokens[i].tokenNumber.code = dept
                        /\ tokens[i].tokenNumber.date = DateStr}
        last == CHOOSE i \in matching :
                    \A j \in matching \ {i} :
                       ~StrLess(tokens[i].tokenNumber.suffix,
                                tokens[j].tokenNumber.suffix)
        nextNumber == IF matching = {} THEN 1
                      ELSE ParseInt(tokens[last].tokenNumber.suffix) + 1
    IN  [tokenNumber |-> [code |-> dept, date |-> DateStr,
                          suffix |-> PadStart(nextNumber)],
         displayNumber |-> [code |-> dept, suffix |-> PadStart(nextNumber)]]

\* countDocuments({department, status in [waiting, called]}) of generateToken
QueueCount(dept) ==
    Cardinality({i \in TokenIds : /\ tokens[i].department = dept
                                  /\ tokens[i].status \in {"waiting", "called"}})

\* new this({...}) of generateToken, with the schema defaults
NewToken(num, cust, dept, ctr, prio, pos, user) ==
    [tokenNumber |-> num.tokenNumber, displayNumber |-> num.displayNumber,
     customer |-> cust, department |-> dept, counter |-> ctr,
     priority |-> prio, queuePosition |-> pos, status |-> "waiting",
     issuedAt |-> now, calledAt |-> Unset, serviceStartedAt |-> Unset,
     completedAt |-> Unset, serviceNotes |-> None, createdBy |-> user,
     transferHistory |-> <<>>]

\* unique index on tokenNumber
UniqueOk(t) == \A i \in TokenIds : tokens[i].tokenNumber # t.tokenNumber

\* token.save() of a new document
CanInsert(t) == ValidToken(t) /\ UniqueOk(t)

\* ------------------------------------------------------- Token methods
\* tokenSchema.methods.callToken
CallTokenDoc(t, counterId) ==
    [t EXCEPT !.status = "called", !.calledAt = now, !.counter = counterId]

\* tokenSchema.methods.startService
StartServiceDoc(t) ==
    [t EXCEPT !.status = "in_service", !.serviceStartedAt = now]

\* tokenSchema.methods.completeService
CompleteServiceDoc(t, notes) ==
    [t EXCEPT !.status = "completed", !.completedAt = now,
              !.serviceNotes = notes]

\* tokenSchema.methods.cancelToken
CancelTokenDoc(t, reason) ==
    [t EXCEPT !.status = "cancelled", !.serviceNotes = reason]

\* tokenSchema.methods.markNoShow
MarkNoShowDoc(t) == [t EXCEPT !.status = "no_show"]

\* tokenSchema.methods.transferToken
TransferTokenDoc(t, newDepartment, newCounter) ==
    [t EXCEPT !.transferHistory =
                  Append(@, [fromDepartment |-> t.department,
                             toDepartment |-> newDepartment,
                             fromCounter |-> t.counter,
                             toCounter |-> newCounter]),
              !.department = newDepartment,
              !.counter = newCounter,
              !.status = "transferred"]

\* Token.findOne({department, status: 'waiting'}).sort({priority: -1,
\* queuePosition: 1}): the documents the query may return (ties are broken by
\* the store, in no specified order)
WaitingIn(dept) ==
    {i \in TokenIds : tokens[i].department = dept /\ tokens[i].status = "waiting"}

SortsBefore(a, b) ==
    \/ a.priority > b.priority
    \/ a.priority = b.priority /\ a.queuePosition < b.queuePosition

NextTokenCandidates(dept) ==
    {i \in WaitingIn(dept) :
        \A j \in WaitingIn(dept) : ~SortsBefore(tokens[j], tokens[i])}

\* what the caller of an operation gets back: ok, null or error, and for the
\* operations that pick or create a document, its id
Outcome(res, tok) == [res |-> res, tok |-> tok]

\* ------------------------------------------------------------ issuance
\* tokenSchema.statics.generateToken, called with a userId
GenerateToken(dept, ctr, cust, prio) ==
    /\ Len(tokens) < MaxTokens
    /\ LET num == GenerateTokenNumber(dept)
           tok == NewToken(num, cust, dept, ctr, prio, QueueCount(dept) + 1,
                           "staff")
       IN  IF CanInsert(tok)
           THEN /\ tokens' = Append(tokens, tok)
                /\ ret' = Outcome("ok", Len(tokens) + 1)
           ELSE /\ tokens' = tokens
                /\ ret' = Outcome("error", NoToken)
    /\ UNCHANGED <<counters, now, utcRolled, pendingAutoCall, pendingResume>>
    /\ UNCHANGED procVars /\ UNCHANGED queueVars

\* customerSchema.methods.issueToken: generateToken without a userId, so
\* createdBy is undefined and save() rejects the document
CustomerIssueToken(cust, dept, ctr, prio) ==
    /\ Len(tokens) < MaxTokens
    /\ LET num == GenerateTokenNumber(dept)
           tok == NewToken(num, cust, dept, ctr, prio, QueueCount(dept) + 1,
                           None)
       IN  IF CanInsert(tok)
           THEN /\ tokens' = Append(tokens, tok)
                /\ ret' = Outcome("ok", Len(tokens) + 1)
           ELSE /\ tokens' = tokens
                /\ ret' = Outcome("error", NoToken)
    /\ UNCHANGED <<counters, now, utcRolled, pendingAutoCall, pendingResume>>
    /\ UNCHANGED procVars /\ UNCHANGED queueVars

\* ------------------------------------------------------- Counter methods
\* counterSchema.methods.openCounter
OpenCounter(c) ==
    /\ counters' = [counters EXCEPT ![c].status = "active"]
    /\ ret' = Outcome("ok", NoToken)
    /\ UNCHANGED <<tokens, now, utcRolled, pendingAutoCall, pendingResume>>
    /\ UNCHANGED procVars /\ UNCHANGED queueVars

\* counterSchema.methods.closeCounter
CloseCounter(c) ==
    /\ counters' = [counters EXCEPT ![c].status = "closed",
                                    ![c].currentToken = NoToken]
    /\ ret' = Outcome("ok", NoToken)
    /\ UNCHANGED <<tokens, now, utcRolled, pendingAutoCall, pendingResume>>
    /\ UNCHANGED procVars /\ UNCHANGED queueVars

\* counterSchema.methods.takeBreak(duration): a duration starts the
\* auto-resume timer
TakeBreak(c, duration) ==
    /\ counters' = [counters EXCEPT ![c].status = "break"]
    /\ IF duration > 0
       THEN /\ pendingResume[c] < MaxTimers
            /\ pendingResume' = [pendingResume EXCEPT ![c] = @ + 1]
       ELSE pendingResume' = pendingResume
    /\ ret' = Outcome("ok", NoToken)
    /\ UNCHANGED <<tokens, now, utcRolled, pendingAutoCall>>
    /\ UNCHANGED procVars /\ UNCHANGED queueVars

\* the setTimeout callback of takeBreak: this.status = 'active'; this.save()
BreakResume(c) ==
    /\ pendingResume[c] > 0
    /\ pendingResume' = [pendingResume EXCEPT ![c] = @ - 1]
    /\ counters' = [counters EXCEPT ![c].status = "active"]
    /\ UNCHANGED <<tokens, now, utcRolled, pendingAutoCall, ret>>
    /\ UNCHANGED procVars /\ UNCHANGED queueVars

\* body of counterSchema.methods.callNextToken, run to completion
CallNextBody(c) ==
    IF NextTokenCandidates(counters[c].department) = {}
    THEN /\ ret' = Outcome("null", NoToken)
         /\ UNCHANGED <<tokens, counters>>
    ELSE \E t \in NextTokenCandidates(counters[c].department) :
            /\ tokens' = [tokens EXCEPT ![t] = CallTokenDoc(@, c)]
            /\ counters' = [counters EXCEPT ![c].currentToken = t,
                                            ![c].status = "busy"]
            /\ ret' = Outcome("ok", t)

\* counterSchema.methods.callNextToken
CallNextToken(c) ==
    /\ CallNextBody(c)
    /\ UNCHANGED <<now, utcRolled, pendingAutoCall, pendingResume>>
    /\ UNCHANGED procVars /\ UNCHANGED queueVars

\* counterSchema.methods.completeCurrentService (settings.autoCallNext keeps
\* its default, true, so the 2 second timer is always started)
CompleteCurrentService(c, notes) ==
    /\ IF counters[c].currentToken = NoToken
       THEN /\ ret' = Outcome("error", NoToken)
            /\ UNCHANGED <<tokens, counters, pendingAutoCall, pendingResume>>
       ELSE /\ pendingAutoCall[c] < MaxTimers
            /\ tokens' = [tokens EXCEPT ![counters[c].currentToken] =
                                            CompleteServiceDoc(@, notes)]
            /\ counters' = [counters EXCEPT ![c].currentToken = NoToken,
                                            ![c].status = "active"]
            /\ pendingAutoCall' = [pendingAutoCall EXCEPT ![c] = @ + 1]
            /\ ret' = Outcome("ok",
                            counters[c].currentToken)
    /\ UNCHANGED <<now, utcRolled, pendingResume>>
    /\ UNCHANGED procVars /\ UNCHANGED queueVars

\* the timer of completeCurrentService with an empty callback
AutoCallNextNoCall(c) ==
    /\ pendingAutoCall[c] > 0
    /\ pendingAutoCall' = [pendingAutoCall EXCEPT ![c] = @ - 1]
    /\ UNCHANGED <<tokens, counters, ret>>
    /\ UNCHANGED <<now, utcRolled, pendingResume>>
    /\ UNCHANGED procVars /\ UNCHANGED queueVars

\* the setTimeout callback of completeCurrentService: this.callNextToken()
AutoCallNext(c) ==
    /\ pendingAutoCall[c] > 0
    /\ pendingAutoCall' = [pendingAutoCall EXCEPT ![c] = @ - 1]
    /\ CallNextBody(c)
    /\ UNCHANGED <<now, utcRolled, pendingResume>>
    /\ UNCHANGED procVars /\ UNCHANGED queueVars

\* --------------------------------------------- Token methods, called directly
TokenFrame ==
    /\ UNCHANGED <<counters, now, utcRolled, pendingAutoCall, pendingResume>>
    /\ UNCHANGED procVars /\ UNCHANGED queueVars

\* token.callToken(counterId, userId)
TokenCallToken(t, c) ==
    /\ tokens' = [tokens EXCEPT ![t] = CallTokenDoc(@, c)]
    /\ ret' = Outcome("ok", NoToken)
    /\ TokenFrame

\* token.startService(userId)
TokenStartService(t) ==
    /\ tokens' = [tokens EXCEPT ![t] = StartServiceDoc(@)]
    /\ ret' = Outcome("ok", NoToken)
    /\ TokenFrame

\* token.completeService(userId, notes, rating)
TokenCompleteService(t) ==
    /\ tokens' = [tokens EXCEPT ![t] = CompleteServiceDoc(@, "notes")]
    /\ ret' = Outcome("ok", NoToken)
    /\ TokenFrame

\* token.cancelToken(userId, reason)
TokenCancelToken(t) ==
    /\ tokens' = [tokens EXCEPT ![t] = CancelTokenDoc(@, "reason")]
    /\ ret' = Outcome("ok", NoToken)
    /\ TokenFrame

\* token.markNoShow(userId)
TokenMarkNoShow(t) ==
    /\ tokens' = [tokens EXCEPT ![t] = MarkNoShowDoc(@)]
    /\ ret' = Outcome("ok", NoToken)
    /\ TokenFrame

\* token.transferToken(newDepartment, newCounter, reason, userId)
TokenTransferToken(t, dept, ctr) ==
    /\ Len(tokens[t].transferHistory) < MaxTransfers
    /\ tokens' = [tokens EXCEPT ![t] = TransferTokenDoc(@, dept, ctr)]
    /\ ret' = Outcome("ok", NoToken)
    /\ TokenFrame

\* ------------------------------------------------- tokenController handlers
\* callToken
TCCallToken(t, c) ==
    /\ IF tokens[t].status # "waiting" \/ counters[c].status # "active"
       THEN tokens' = tokens /\ ret' = Outcome("error", NoToken)
       ELSE /\ tokens' = [tokens EXCEPT ![t] = CallTokenDoc(@, c)]
            /\ ret' = Outcome("ok", NoToken)
    /\ TokenFrame

\* serveToken: 'serving' is not in the status enum, so save() rejects it
TCServeToken(t) ==
    /\ IF tokens[t].status # "called"
       THEN tokens' = tokens /\ ret' = Outcome("error", NoToken)
       ELSE LET doc == [tokens[t] EXCEPT !.status = "serving"]
            IN  IF ValidToken(doc)
                THEN /\ tokens' = [tokens EXCEPT ![t] = doc]
                     /\ ret' = Outcome("ok", NoToken)
                ELSE /\ tokens' = tokens
                     /\ ret' = Outcome("error", NoToken)
    /\ TokenFrame

\* completeToken
TCCompleteToken(t) ==
    /\ IF tokens[t].status # "serving"
       THEN tokens' = tokens /\ ret' = Outcome("error", NoToken)
       ELSE /\ tokens' = [tokens EXCEPT ![t].status = "completed",
                                        ![t].completedAt = now]
            /\ ret' = Outcome("ok", NoToken)
    /\ TokenFrame

\* cancelToken (cancelledAt, cancelledBy, cancellationReason are not schema
\* paths and are dropped)
TCCancelToken(t) ==
    /\ IF tokens[t].status \notin {"waiting", "called"}
       THEN tokens' = tokens /\ ret' = Outcome("error", NoToken)
       ELSE /\ tokens' = [tokens EXCEPT ![t].status = "cancelled"]
            /\ ret' = Outcome("ok", NoToken)
    /\ TokenFrame

\* transferToken (the pushed entry's from/to objects are not paths of the
\* transferHistory sub-schema, so the stored entry carries none of them)
TCTransferToken(t, dept, ctr) ==
    /\ IF tokens[t].status \in {"completed", "cancelled"}
       THEN tokens' = tokens /\ ret' = Outcome("error", NoToken)
       ELSE /\ Len(tokens[t].transferHistory) < MaxTransfers
            /\ tokens' = [tokens EXCEPT
                   ![t].department = dept,
                   ![t].counter = ctr,
                   ![t].status = "waiting",
                   ![t].transferHistory =
                       Append(@, [fromDepartment |-> None, toDepartment |-> None,
                                  fromCounter |-> None, toCounter |-> None])]
            /\ ret' = Outcome("ok", NoToken)
    /\ TokenFrame

\* Department.isOpen virtual: toLocaleDateString('en', {weekday: 'lowercase'})
\* is given an option value Intl rejects, so for an active department the
\* getter throws RangeError; the modelled departments are all active
DepartmentIsOpen(dept) == "RangeError"

\* customerSchema.priority default, which the handler falls back to when the
\* request's priority is falsy (priority || customer.priority)
CustomerPriority == 5

\* customerController.generateToken
CustGenerateToken(cust, dept, prio) ==
    /\ Len(tokens) < MaxTokens
    /\ LET available == {c \in CounterIds :
                            /\ counters[c].department = dept
                            /\ counters[c].status = "active"
                            /\ counters[c].currentToken = NoToken}
           activeToken == {i \in TokenIds : /\ tokens[i].customer = cust
                                            /\ IsActive(tokens[i])}
       IN  IF DepartmentIsOpen(dept) # "true" \/ available = {}
              \/ activeToken # {}
           THEN /\ tokens' = tokens
                /\ ret' = Outcome("error", NoToken)
           ELSE \E c \in available :
                   LET num == GenerateTokenNumber(dept)
                       tok == NewToken(num, cust, dept, c,
                                       IF prio = 0 THEN CustomerPriority
                                       ELSE prio,
                                       QueueCount(dept) + 1, "staff")
                   IN  IF CanInsert(tok)
                       THEN /\ tokens' = Append(tokens, tok)
                            /\ ret' = Outcome("ok",
                                              Len(tokens) + 1)
                       ELSE /\ tokens' = tokens
                            /\ ret' = Outcome("error",
                                              NoToken)
    /\ TokenFrame

\* department.maxTokensPerDay, the daily limit the issuing handler compares
\* with; the departments of the runs are given one below the run's tokens
MaxTokensPerDay == MaxTokens - 1

\* Department has no isActive path: department.isActive is undefined
DepartmentIsActive(dept) == FALSE

\* tokensToday >= department.maxTokensPerDay: Department has no
\* maxTokensPerDay path, and a number compared with undefined is false
DailyLimitReached(tokensToday) == FALSE

\* generateTokenNumber helper of tokenController: count of the department's
\* tokens created today, plus one, after the service prefix and the date
TCGenerateTokenNumber(dept) ==
    [code |-> "T", date |-> DateStr,
     suffix |-> PadStart(Cardinality({i \in TokenIds :
                                         tokens[i].department = dept}) + 1)]

\* tokenController.generateToken: rejected at the isActive test; past it,
\* Token.create gets no displayNumber and no createdBy and fails validation
TCGenerateToken(cust, dept, prio) ==
    /\ Len(tokens) < MaxTokens
    /\ LET tokensToday == Cardinality({i \in TokenIds :
                              /\ tokens[i].department = dept
                              /\ tokens[i].status # "cancelled"})
           num == [tokenNumber |-> TCGenerateTokenNumber(dept),
                   displayNumber |-> None]
           tok == NewToken(num, cust, dept, None, prio, NoPos, None)
       IN  IF ~DepartmentIsActive(dept) \/ DailyLimitReached(tokensToday)
              \/ ~CanInsert(tok)
           THEN /\ tokens' = tokens
                /\ ret' = Outcome("error", NoToken)
           ELSE /\ tokens' = Append(tokens, tok)
                /\ ret' = Outcome("ok", Len(tokens) + 1)
    /\ TokenFrame

\* ------------------------------------------------------------ environment
\* time passes
Tick ==
    /\ now < MaxClock
    /\ now' = now + 1
    /\ UNCHANGED <<tokens, counters, utcRolled, pendingAutoCall, pendingResume, ret>>
    /\ UNCHANGED procVars /\ UNCHANGED queueVars

\* UTC midnight passes during the business day (server zone west of UTC)
UtcMidnight ==
    /\ ~utcRolled
    /\ utcRolled' = TRUE
    /\ UNCHANGED <<tokens, counters, now, pendingAutoCall, pendingResume, ret>>
    /\ UNCHANGED procVars /\ UNCHANGED queueVars

\* ---------------------------------------- callNextToken, one await at a time
IdleCall == [pc |-> "idle", tok |-> NoToken]

CallsFrame ==
    /\ UNCHANGED <<now, utcRolled, pendingAutoCall, pendingResume, ret, issue, adds, runs, scheduler>>
    /\ UNCHANGED queueVars

\* await Token.findOne(...).sort(...)
CNTFind(c) ==
    /\ calls[c].pc = "idle"
    /\ IF NextTokenCandidates(counters[c].department) = {}
       THEN calls' = [calls EXCEPT ![c] = [pc |-> "done", tok |-> NoToken]]
       ELSE \E t \in NextTokenCandidates(counters[c].department) :
               calls' = [calls EXCEPT ![c] = [pc |-> "found", tok |-> t]]
    /\ UNCHANGED <<tokens, counters>>
    /\ CallsFrame

\* await nextToken.callToken(this._id, this.currentOperator)
CNTSaveToken(c) ==
    /\ calls[c].pc = "found"
    /\ tokens' = [tokens EXCEPT ![calls[c].tok] = CallTokenDoc(@, c)]
    /\ calls' = [calls EXCEPT ![c].pc = "saved"]
    /\ UNCHANGED counters
    /\ CallsFrame

\* this.currentToken = ...; await this.save(); return nextToken
CNTSaveCounter(c) ==
    /\ calls[c].pc = "saved"
    /\ counters' = [counters EXCEPT ![c].currentToken = calls[c].tok,
                                    ![c].status = "busy"]
    /\ calls' = [calls EXCEPT ![c].pc = "done"]
    /\ UNCHANGED tokens
    /\ CallsFrame

\* the caller takes the result
CNTReturn(c) ==
    /\ calls[c].pc = "done"
    /\ calls' = [calls EXCEPT ![c] = IdleCall]
    /\ ret' = Outcome(IF calls[c].tok = NoToken THEN "null" ELSE "ok",
                      calls[c].tok)
    /\ UNCHANGED <<tokens, counters, now, utcRolled, pendingAutoCall, pendingResume, issue,
                   adds, runs, scheduler>>
    /\ UNCHANGED queueVars

\* ---------------------------------- Token.generateToken, one await at a time
IdleIssue == [pc |-> "idle", dept |-> None, ctr |-> None, cust |-> None,
              prio |-> 0, num |-> None, count |-> 0]

InFlight == {p \in DOMAIN issue : issue[p].pc # "idle"}

IssueFrame ==
    /\ UNCHANGED <<counters, now, utcRolled, pendingAutoCall, pendingResume, calls, adds,
                   runs, scheduler>>
    /\ UNCHANGED queueVars

\* await this.generateTokenNumber(departmentId)
GTNumber(p, dept, ctr, cust, prio) ==
    /\ issue[p].pc = "idle"
    /\ Len(tokens) + Cardinality(InFlight) < MaxTokens
    /\ issue' = [issue EXCEPT ![p] =
                    [pc |-> "numbered", dept |-> dept, ctr |-> ctr,
                     cust |-> cust, prio |-> prio,
                     num |-> GenerateTokenNumber(dept), count |-> 0]]
    /\ UNCHANGED <<tokens, ret>>
    /\ IssueFrame

\* await this.countDocuments(...)
GTCount(p) ==
    /\ issue[p].pc = "numbered"
    /\ issue' = [issue EXCEPT ![p].pc = "counted",
                              ![p].count = QueueCount(issue[p].dept)]
    /\ UNCHANGED <<tokens, ret>>
    /\ IssueFrame

\* return await token.save()
GTSave(p) ==
    /\ issue[p].pc = "counted"
    /\ LET r == issue[p]
           tok == NewToken(r.num, r.cust, r.dept, r.ctr, r.prio, r.count + 1,
                           "staff")
       IN  IF CanInsert(tok)
           THEN /\ tokens' = Append(tokens, tok)
                /\ ret' = Outcome("ok", Len(tokens) + 1)
           ELSE /\ tokens' = tokens
                /\ ret' = Outcome("error", NoToken)
    /\ issue' = [issue EXCEPT ![p] = IdleIssue]
    /\ IssueFrame

\* ================================================================ Queue.js
TokenSide == UNCHANGED tokenVars /\ UNCHANGED procVars

Exists(p) == projects[p].state = "stored"

\* projects of a queue, whatever their status
InQueue(q) == {p \in ProjectIds : Exists(p) /\ projects[p].queueId = q}

\* the waiting set of a queue
Queued(q) == {p \in InQueue(q) : projects[p].status = "queued"}

\* queueSchema.methods.canAcceptProject (acceptanceCriteria keep their
\* defaults: priorities 1..10, no category or tag restriction)
CanAcceptProject(q, p) ==
    IF queues[q].currentSize >= queues[q].capacity
    THEN "Queue is at full capacity"
    ELSE IF queues[q].status # "active"
    THEN "Queue is not active"
    ELSE IF projects[p].priority < PriorityMin \/ projects[p].priority > PriorityMax
    THEN "Project priority is outside acceptable range"
    ELSE "ok"

\* position chosen by the switch of addProject; size is stats.currentSize
\* after the increment
AddPosition(q, p, size) ==
    CASE queues[q].type = "fifo" -> size
      [] queues[q].type = "lifo" -> 1
      [] queues[q].type \in {"priority", "weighted"} ->
            Cardinality({o \in Queued(q) :
                            projects[o].priority > projects[p].priority}) + 1
      [] OTHER -> size

\* the updateMany of addProject without its queueId filter
AddShiftedAnyQueue(q, p, position) ==
    CASE queues[q].type = "lifo" ->
            {o \in ProjectIds : /\ Exists(o)
                                /\ projects[o].queuePosition # NoPos
                                /\ projects[o].queuePosition >= 1}
      [] queues[q].type \in {"priority", "weighted"} ->
            {o \in ProjectIds : /\ Exists(o)
                                /\ projects[o].priority <= projects[p].priority
                                /\ projects[o].queuePosition # NoPos
                                /\ projects[o].queuePosition >= position}
      [] OTHER -> {}

\* the projects whose queuePosition the updateMany of addProject increments
AddShifted(q, p, position) ==
    CASE queues[q].type = "lifo" ->
            {o \in InQueue(q) : /\ projects[o].queuePosition # NoPos
                                /\ projects[o].queuePosition >= 1}
      [] queues[q].type \in {"priority", "weighted"} ->
            {o \in InQueue(q) : /\ projects[o].priority <= projects[p].priority
                                /\ projects[o].queuePosition # NoPos
                                /\ projects[o].queuePosition >= position}
      [] OTHER -> {}

\* queueSchema.methods.addProject, after the acceptance check: the projects
\* collection afterwards
AddProjectDocs(q, p) ==
    LET position == AddPosition(q, p, queues[q].currentSize + 1)
        shifted == AddShifted(q, p, position)
    IN  [o \in ProjectIds |->
            IF o = p
            THEN [projects[o] EXCEPT !.queueId = q,
                                     !.queuePosition = position,
                                     !.status = "queued"]
            ELSE IF o \in shifted
            THEN [projects[o] EXCEPT !.queuePosition = @ + 1]
            ELSE projects[o]]

\* removeProject without its updateMany: the followers keep their positions
RemoveProjectDocsNoShift(q, p) ==
    [projects EXCEPT ![p].queueId = None, ![p].queuePosition = NoPos]

\* queueSchema.methods.removeProject: the projects collection afterwards
RemoveProjectDocs(q, p) ==
    [o \in ProjectIds |->
        IF o = p
        THEN [projects[o] EXCEPT !.queueId = None, !.queuePosition = NoPos]
        ELSE IF /\ o \in InQueue(q)
                /\ projects[o].queuePosition # NoPos
                /\ projects[p].queuePosition # NoPos
                /\ projects[o].queuePosition > projects[p].queuePosition
        THEN [projects[o] EXCEPT !.queuePosition = @ - 1]
        ELSE projects[o]]

Max0(n) == IF n > 0 THEN n ELSE 0

\* queueSchema.methods.getNextProject on the stored projects pr: the documents
\* the findOne may return
GetNextIn(pr, q) ==
    LET queued == {p \in ProjectIds : /\ pr[p].state = "stored"
                                      /\ pr[p].queueId = q
                                      /\ pr[p].status = "queued"}
    IN  CASE queues[q].type \in {"fifo", "priority", "weighted"} ->
                {p \in queued : \A o \in queued :
                    pr[p].queuePosition <= pr[o].queuePosition}
          [] queues[q].type = "lifo" ->
                {p \in queued : \A o \in queued :
                    pr[p].queuePosition >= pr[o].queuePosition}
          [] OTHER ->
                {p \in queued : \A o \in queued :
                    \/ pr[p].priority > pr[o].priority
                    \/ pr[p].priority = pr[o].priority /\ p <= o}

GetNextProject(q) == GetNextIn(projects, q)

\* queueService.processNextProject on stored projects pr and queues qs: the
\* possible results, as the stored documents afterwards and the return value
ProcessNextResults(pr, qs, q) ==
    IF \/ qs[q].status # "active"
       \/ qs[q].processing >= qs[q].concurrency
       \/ GetNextIn(pr, q) = {}
    THEN {[projects |-> pr, queues |-> qs, picked |-> NoToken]}
    ELSE {[projects |-> [pr EXCEPT ![p].status = "in_progress"],
           queues |-> [qs EXCEPT ![q].processing = @ + 1],
           picked |-> p] : p \in GetNextIn(pr, q)}

\* createProject: the next unused id, status pending
CreateProject(p, prio) ==
    /\ projects[p].state = "unused"
    /\ \A o \in ProjectIds : o < p => projects[o].state # "unused"
    /\ projects' = [projects EXCEPT ![p] =
                       [state |-> "stored", status |-> "pending",
                        priority |-> prio, queueId |-> None,
                        queuePosition |-> NoPos]]
    /\ ret' = Outcome("ok", NoToken)
    /\ UNCHANGED queues
    /\ TokenSide

\* queueService.processNextProject
ProcessNextProject(q) ==
    /\ \E r \in ProcessNextResults(projects, queues, q) :
          /\ projects' = r.projects
          /\ queues' = r.queues
          /\ ret' = Outcome(IF r.picked = NoToken THEN "null" ELSE "ok",
                            r.picked)
    /\ TokenSide

\* the checks of addProjectToQueue without the one on project.queueId
AddProjectToQueueErrorAnyMember(q, p) ==
    IF queues[q].archived
    THEN "Queue not found or archived"
    ELSE CanAcceptProject(q, p)

\* the checks of queueService.addProjectToQueue, in the order of the code:
\* the message of the error thrown, or "ok"
AddProjectToQueueError(q, p) ==
    IF queues[q].archived
    THEN "Queue not found or archived"
    ELSE IF projects[p].queueId # None
         THEN "Project is already in a queue"
         ELSE CanAcceptProject(q, p)

\* the check of queueService.removeProjectFromQueue on an existing queue and
\* project
RemoveProjectFromQueueError(q, p) ==
    IF projects[p].queueId # q
    THEN "Project is not in this queue"
    ELSE "ok"

\* queueService.addProjectToQueue (processingRules.autoAssign keeps its
\* default, false; it touches neither positions nor counters)
AddProjectToQueue(q, p) ==
    /\ Exists(p)
    /\ IF AddProjectToQueueError(q, p) # "ok"
       THEN /\ ret' = Outcome("error", NoToken)
            /\ UNCHANGED <<projects, queues>>
       ELSE LET pr == AddProjectDocs(q, p)
                qs == [queues EXCEPT ![q].currentSize = @ + 1]
            IN  /\ ret' = Outcome("ok", NoToken)
                /\ IF qs[q].autoStart /\ qs[q].processing < qs[q].concurrency
                   THEN \E r \in ProcessNextResults(pr, qs, q) :
                           projects' = r.projects /\ queues' = r.queues
                   ELSE projects' = pr /\ queues' = qs
    /\ TokenSide

\* queueService.removeProjectFromQueue
RemoveProjectFromQueue(q, p) ==
    /\ Exists(p)
    /\ IF projects[p].queueId # q
       THEN /\ ret' = Outcome("error", NoToken)
            /\ UNCHANGED <<projects, queues>>
       ELSE /\ projects' = RemoveProjectDocs(q, p)
            /\ queues' = [queues EXCEPT ![q].currentSize = Max0(@ - 1)]
            /\ ret' = Outcome("ok", NoToken)
    /\ TokenSide

\* a document that deleteOne removed: its id is not used again
DeletedProject == [state |-> "deleted", status |-> "pending", priority |-> 0,
                   queueId |-> None, queuePosition |-> NoPos]

\* projectController.deleteProject
DeleteProject(p) ==
    /\ Exists(p)
    /\ LET q == projects[p].queueId
       IN  IF q = None
           THEN /\ projects' = [projects EXCEPT ![p] = DeletedProject]
                /\ UNCHANGED queues
           ELSE /\ projects' = [RemoveProjectDocs(q, p) EXCEPT
                                   ![p] = DeletedProject]
                /\ queues' = [queues EXCEPT ![q].currentSize = Max0(@ - 1)]
    /\ ret' = Outcome("ok", NoToken)
    /\ TokenSide

\* the projectOrder arrays a reorder request may carry
ProjectOrders == UNION {[1..n -> ProjectIds] : n \in 1..MaxProjects}

\* the bulkWrite of reorderQueue: the updateOne operations run in array
\* order, each on the project with that id if it is in the queue
RECURSIVE ReorderDocs(_, _, _, _)
ReorderDocs(pr, q, order, k) ==
    IF k > Len(order) THEN pr
    ELSE LET p == order[k]
             hit == pr[p].state = "stored" /\ pr[p].queueId = q
         IN  ReorderDocs(IF hit THEN [pr EXCEPT ![p].queuePosition = k]
                         ELSE pr,
                         q, order, k + 1)

\* queueService.reorderQueue, requested by the queue's creator
ReorderQueue(q, order) ==
    /\ UNCHANGED queues
    /\ IF queues[q].archived
       THEN /\ ret' = Outcome("error", NoToken)
            /\ UNCHANGED projects
       ELSE /\ ret' = Outcome("ok", NoToken)
            /\ projects' = ReorderDocs(projects, q, order, 1)
    /\ TokenSide

\* ------------------------ queueService.addProjectToQueue, one await at a time
\* size is stats.currentSize of the queue document the call holds in memory
IdleAdd == [pc |-> "idle", q |-> None, p |-> 0, size |-> 0, pos |-> NoPos]

AddsFrame ==
    /\ UNCHANGED tokenVars
    /\ UNCHANGED <<issue, calls, runs, scheduler>>

\* const queue = await Queue.findById(queueId)
APFindQueue(a, q, p) ==
    /\ adds[a].pc = "idle"
    /\ adds' = [adds EXCEPT ![a] = [pc |-> "queue", q |-> q, p |-> p,
                                    size |-> queues[q].currentSize,
                                    pos |-> NoPos]]
    /\ UNCHANGED <<projects, queues, ret>>
    /\ AddsFrame

\* const project = await Project.findById(projectId), the checks, and
\* addProject up to its first await: the increment of the size in memory and
\* the position of the types that need no query
APFindProject(a) ==
    /\ adds[a].pc = "queue"
    /\ LET q == adds[a].q
           p == adds[a].p
           size == adds[a].size
       IN  \* canAcceptProject reads the size of the document in memory
           IF \/ queues[q].archived
              \/ ~Exists(p)
              \/ projects[p].queueId # None
              \/ size >= queues[q].capacity
              \/ CanAcceptProject(q, p) \notin
                    {"ok", "Queue is at full capacity"}
           THEN /\ adds' = [adds EXCEPT ![a] = IdleAdd]
                /\ ret' = Outcome("error", NoToken)
           ELSE /\ adds' = [adds EXCEPT
                      ![a].size = size + 1,
                      ![a].pos = IF queues[q].type \in {"priority", "weighted"}
                                 THEN NoPos
                                 ELSE AddPosition(q, p, size + 1),
                      ![a].pc = CASE queues[q].type \in {"priority", "weighted"}
                                        -> "count"
                                  [] queues[q].type = "lifo" -> "shift"
                                  [] OTHER -> "position"]
                /\ ret' = ret
    /\ UNCHANGED <<projects, queues>>
    /\ AddsFrame

\* priority, weighted: await countDocuments({queueId, priority > p's, queued})
APCount(a) ==
    /\ adds[a].pc = "count"
    /\ adds' = [adds EXCEPT
                   ![a].pos = AddPosition(adds[a].q, adds[a].p, adds[a].size),
                   ![a].pc = "shift"]
    /\ UNCHANGED <<projects, queues, ret>>
    /\ AddsFrame

\* lifo, priority, weighted: await updateMany(..., {$inc: {queuePosition: 1}})
APShift(a) ==
    /\ adds[a].pc = "shift"
    /\ LET shifted == AddShifted(adds[a].q, adds[a].p, adds[a].pos)
       IN  projects' = [o \in ProjectIds |->
                           IF o \in shifted
                           THEN [projects[o] EXCEPT !.queuePosition = @ + 1]
                           ELSE projects[o]]
    /\ adds' = [adds EXCEPT ![a].pc = "position"]
    /\ UNCHANGED <<queues, ret>>
    /\ AddsFrame

\* await project.save(): queueId, queuePosition and status are written
APSaveProject(a) ==
    /\ adds[a].pc = "position"
    /\ projects' = [projects EXCEPT
                       ![adds[a].p].queueId = adds[a].q,
                       ![adds[a].p].queuePosition = adds[a].pos,
                       ![adds[a].p].status = "queued"]
    /\ adds' = [adds EXCEPT ![a].pc = "saved"]
    /\ UNCHANGED <<queues, ret>>
    /\ AddsFrame

\* await this.save(): stats.currentSize is written from memory; the call
\* returns (processingRules.autoAssign and autoStart keep their default)
APSaveQueue(a) ==
    /\ adds[a].pc = "saved"
    /\ queues' = [queues EXCEPT ![adds[a].q].currentSize = adds[a].size]
    /\ adds' = [adds EXCEPT ![a] = IdleAdd]
    /\ ret' = Outcome("ok", NoToken)
    /\ UNCHANGED projects
    /\ AddsFrame


\* archiveQueue without the updateMany on the queued projects
ArchiveQueueKeepProjects(q) ==
    /\ IF queues[q].archived
       THEN /\ ret' = Outcome("error", NoToken)
            /\ UNCHANGED <<projects, queues>>
       ELSE /\ projects' = projects
            /\ queues' = [queues EXCEPT ![q].archived = TRUE,
                                        ![q].status = "disabled"]
            /\ ret' = Outcome("ok", NoToken)
    /\ TokenSide

\* queueService.archiveQueue, requested by the queue's creator: getQueueById
\* does not find an archived queue
ArchiveQueue(q) ==
    /\ IF queues[q].archived
       THEN /\ ret' = Outcome("error", NoToken)
            /\ UNCHANGED <<projects, queues>>
       ELSE /\ projects' = [p \in ProjectIds |->
                               IF p \in Queued(q)
                               THEN [projects[p] EXCEPT
                                        !.status = "pending",
                                        !.queueId = None,
                                        !.queuePosition = NoPos]
                               ELSE projects[p]]
            /\ queues' = [queues EXCEPT ![q].archived = TRUE,
                                        ![q].status = "disabled"]
            /\ ret' = Outcome("ok", NoToken)
    /\ TokenSide

\* ---------------------- queueService.processNextProject, one await at a time
\* processing is stats.processing of the queue document the call holds in
\* memory, pick the project its findOne returned
IdleRun == [pc |-> "idle", q |-> None, processing |-> 0, pick |-> 0,
            caller |-> "route", stale |-> 0, first |-> 0, started |-> 0]

RunsFrame ==
    /\ UNCHANGED tokenVars
    /\ UNCHANGED <<issue, calls, adds, scheduler>>

\* where a processNextProject call returns to: the route handler answers the
\* request; the loops of resumeQueue and of the scheduled task count a
\* started project and test again, and leave the loop on null (resumeQueue
\* then returns, the task still awaits queue.save())
PNReturn(a, got) ==
    IF runs[a].caller = "route" THEN IdleRun
    ELSE IF got
         THEN [runs[a] EXCEPT !.pc = "loop", !.processing = 0, !.pick = 0,
                              !.started = @ + 1]
         ELSE IF runs[a].caller = "resume" THEN IdleRun
              ELSE [runs[a] EXCEPT !.pc = "tasksave", !.processing = 0,
                                   !.pick = 0]

\* what the outer caller has been answered once the call has returned
PNAnswer(a, got, answer) ==
    IF runs[a].caller = "route" THEN answer
    ELSE IF ~got /\ runs[a].caller = "resume"
         THEN Outcome("ok", NoToken)
         ELSE ret

\* the findById step of processNextProject without the test of
\* stats.processing against concurrency
PNFindQueueNoGate(a, q) ==
    /\ \/ runs[a].pc = "idle"
       \/ /\ runs[a].pc = "loop"
          /\ runs[a].q = q
          /\ runs[a].stale < queues[q].concurrency
    /\ IF queues[q].status # "active"
       THEN /\ runs' = [runs EXCEPT ![a] = PNReturn(a, FALSE)]
            /\ ret' = PNAnswer(a, FALSE, Outcome("null", NoToken))
       ELSE /\ runs' = [runs EXCEPT ![a].pc = "queue", ![a].q = q,
                                    ![a].processing = queues[q].processing,
                                    ![a].pick = 0]
            /\ ret' = ret
    /\ UNCHANGED <<projects, queues>>
    /\ RunsFrame

\* const queue = await Queue.findById(queueId), and the two gates; a loop
\* calls only while its own copy of the queue is below its concurrency
PNFindQueue(a, q) ==
    /\ \/ runs[a].pc = "idle"
       \/ /\ runs[a].pc = "loop"
          /\ runs[a].q = q
          /\ runs[a].stale < queues[q].concurrency
    /\ IF \/ queues[q].status # "active"
          \/ queues[q].processing >= queues[q].concurrency
       THEN /\ runs' = [runs EXCEPT ![a] = PNReturn(a, FALSE)]
            /\ ret' = PNAnswer(a, FALSE, Outcome("null", NoToken))
       ELSE /\ runs' = [runs EXCEPT ![a].pc = "queue", ![a].q = q,
                                    ![a].processing = queues[q].processing,
                                    ![a].pick = 0]
            /\ ret' = ret
    /\ UNCHANGED <<projects, queues>>
    /\ RunsFrame

\* const nextProject = await queue.getNextProject()
PNGetNext(a) ==
    /\ runs[a].pc = "queue"
    /\ IF GetNextProject(runs[a].q) = {}
       THEN /\ runs' = [runs EXCEPT ![a] = PNReturn(a, FALSE)]
            /\ ret' = PNAnswer(a, FALSE, Outcome("null", NoToken))
       ELSE /\ \E p \in GetNextProject(runs[a].q) :
                  runs' = [runs EXCEPT ![a].pc = "next", ![a].pick = p]
            /\ ret' = ret
    /\ UNCHANGED <<projects, queues>>
    /\ RunsFrame

\* nextProject.status = 'in_progress'; await nextProject.save()
PNSaveProject(a) ==
    /\ runs[a].pc = "next"
    /\ projects' = [projects EXCEPT ![runs[a].pick].status = "in_progress"]
    /\ runs' = [runs EXCEPT ![a].pc = "started"]
    /\ UNCHANGED <<queues, ret>>
    /\ RunsFrame

\* queue.stats.processing += 1; await queue.save(); return nextProject
PNSaveQueue(a) ==
    /\ runs[a].pc = "started"
    /\ queues' = [queues EXCEPT ![runs[a].q].processing =
                                    runs[a].processing + 1]
    /\ runs' = [runs EXCEPT ![a] = PNReturn(a, TRUE)]
    /\ ret' = PNAnswer(a, TRUE, Outcome("ok", runs[a].pick))
    /\ UNCHANGED projects
    /\ RunsFrame

\* ------------------------- queueService.pauseQueue and resumeQueue, by step
\* pauseQueue: getQueueById does not find an archived queue; the save writes
\* the status alone
PauseQueue(q) ==
    /\ IF queues[q].archived
       THEN /\ ret' = Outcome("error", NoToken)
            /\ UNCHANGED queues
       ELSE /\ queues' = [queues EXCEPT ![q].status = "paused"]
            /\ ret' = Outcome("ok", NoToken)
    /\ UNCHANGED projects
    /\ TokenSide

\* resumeQueue: const queue = await this.getQueueById(queueId, userId)
RQFindQueue(a, q) ==
    /\ runs[a].pc = "idle"
    /\ IF queues[q].archived
       THEN /\ runs' = runs
            /\ ret' = Outcome("error", NoToken)
       ELSE /\ runs' = [runs EXCEPT ![a] =
                           [IdleRun EXCEPT !.pc = "resume", !.q = q,
                                           !.caller = "resume",
                                           !.stale = queues[q].processing]]
            /\ ret' = ret
    /\ UNCHANGED <<projects, queues>>
    /\ RunsFrame

\* queue.status = 'active'; await queue.save()
RQSave(a) ==
    /\ runs[a].pc = "resume"
    /\ queues' = [queues EXCEPT ![runs[a].q].status = "active"]
    /\ runs' = [runs EXCEPT ![a].pc = "loop",
                            ![a].first = queues[runs[a].q].processing]
    /\ UNCHANGED <<projects, ret>>
    /\ RunsFrame

\* the scheduled task of addQueueSchedule fires: its closure holds the queue
\* document loaded when the schedule was registered
QueueTask(a, q, stale) ==
    /\ runs[a].pc = "idle"
    /\ runs' = [runs EXCEPT ![a] =
                   [IdleRun EXCEPT !.pc = "loop", !.q = q, !.caller = "task",
                                   !.stale = stale,
                                   !.first = queues[q].processing]]
    /\ UNCHANGED <<projects, queues, ret>>
    /\ RunsFrame

\* while (queue.stats.processing < queue.concurrency) is false
LoopExit(a) ==
    /\ runs[a].pc = "loop"
    /\ runs[a].stale >= queues[runs[a].q].concurrency
    /\ runs' = [runs EXCEPT ![a] = PNReturn(a, FALSE)]
    /\ ret' = PNAnswer(a, FALSE, ret)
    /\ UNCHANGED <<projects, queues>>
    /\ RunsFrame

\* one more turn of the loop: const processed = await
\* this.processNextProject(queueId)
LoopCall(a) ==
    /\ runs[a].pc = "loop"
    /\ PNFindQueue(a, runs[a].q)

\* the task's await queue.save(): schedule.lastRun and schedule.nextRun are
\* the modified paths
TaskSave(a) ==
    /\ runs[a].pc = "tasksave"
    /\ runs' = [runs EXCEPT ![a] = IdleRun]
    /\ UNCHANGED <<projects, queues, ret>>
    /\ RunsFrame


\* ------------------------------------------------- the Scheduler singleton
\* the names of startCoreScheduledTasks and of addQueueSchedule
CoreTasks == {"update-queue-stats", "update-user-workloads", "process-queues",
              "cleanup-projects", "overdue-notifications",
              "update-user-stats"}

QueueTaskName(q) == IF q = "q1" THEN "queue-q1" ELSE "queue-q2"

TaskNames == CoreTasks \cup {QueueTaskName(q) : q \in QueueIds}

\* constructor: this.tasks = new Map(); this.initialized = false. tasks[n]
\* is the cron task registered under n (0: none), running[n] the cron tasks
\* created under n that were started and not stopped, made[n] how many were
\* created under n so far.
NewScheduler ==
    [tasks |-> [n \in TaskNames |-> 0],
     running |-> [n \in TaskNames |-> {}],
     made |-> [n \in TaskNames |-> 0],
     initialized |-> FALSE]

\* addTask without the test of this.tasks.has(name)
AddTaskOverwrite(s, name, valid) ==
    IF ~valid
    THEN s
    ELSE [s EXCEPT !.made[name] = @ + 1,
                   !.tasks[name] = s.made[name] + 1,
                   !.running[name] = @ \cup {s.made[name] + 1}]

\* addTask(name, pattern, task); cron.schedule throws on a pattern that is
\* not valid, and the catch logs it
AddTask(s, name, valid) ==
    IF s.tasks[name] # 0
    THEN s
    ELSE IF ~valid
         THEN s
         ELSE [s EXCEPT !.made[name] = @ + 1,
                        !.tasks[name] = s.made[name] + 1,
                        !.running[name] = @ \cup {s.made[name] + 1}]

\* removeTask(name)
RemoveTask(s, name) ==
    IF s.tasks[name] = 0
    THEN s
    ELSE [s EXCEPT !.running[name] = @ \ {s.tasks[name]},
                   !.tasks[name] = 0]

\* addQueueSchedule(queue): enabled stands for schedule.enabled and a
\* pattern being there, valid for the pattern being a cron pattern
AddQueueSchedule(s, q, enabled, valid) ==
    LET removed == IF s.tasks[QueueTaskName(q)] # 0
                   THEN RemoveTask(s, QueueTaskName(q))
                   ELSE s
    IN  IF ~enabled
        THEN removed
        ELSE AddTask(removed, QueueTaskName(q), valid)

\* startCoreScheduledTasks: six addTask calls with constant patterns
StartCoreScheduledTasks(s) ==
    LET s1 == AddTask(s, "update-queue-stats", TRUE)
        s2 == AddTask(s1, "update-user-workloads", TRUE)
        s3 == AddTask(s2, "process-queues", TRUE)
        s4 == AddTask(s3, "cleanup-projects", TRUE)
        s5 == AddTask(s4, "overdue-notifications", TRUE)
    IN  AddTask(s5, "update-user-stats", TRUE)

\* loadQueueSchedules: addQueueSchedule for every queue found with
\* schedule.enabled; bad holds the queues whose pattern is not valid
LoadQueueSchedules(s, scheduled, bad) ==
    LET s1 == IF "q1" \in scheduled
              THEN AddQueueSchedule(s, "q1", TRUE, "q1" \notin bad)
              ELSE s
    IN  IF "q2" \in scheduled
        THEN AddQueueSchedule(s1, "q2", TRUE, "q2" \notin bad)
        ELSE s1

\* initializeScheduler
Initialized(s, scheduled, bad) ==
    IF s.initialized
    THEN s
    ELSE [LoadQueueSchedules(StartCoreScheduledTasks(s), scheduled, bad)
             EXCEPT !.initialized = TRUE]

\* stopAll
Stopped(s) ==
    [s EXCEPT !.tasks = [n \in TaskNames |-> 0],
              !.running = [n \in TaskNames |-> {}],
              !.initialized = FALSE]

SchedulerFrame ==
    /\ UNCHANGED tokenVars
    /\ UNCHANGED queueVars
    /\ UNCHANGED <<ret, issue, calls, adds, runs>>

\* scheduler.addTask(name, pattern, task) on the exported singleton
SchedulerAddTask(name, valid) ==
    /\ scheduler' = AddTask(scheduler, name, valid)
    /\ SchedulerFrame

\* the exported addQueueSchedule(queue)
SchedulerAddQueueSchedule(q, enabled, valid) ==
    /\ scheduler' = AddQueueSchedule(scheduler, q, enabled, valid)
    /\ SchedulerFrame

\* the exported removeQueueSchedule(queueId)
RemoveQueueSchedule(q) ==
    /\ scheduler' = RemoveTask(scheduler, QueueTaskName(q))
    /\ SchedulerFrame

\* the exported initializeScheduler()
InitializeScheduler(scheduled, bad) ==
    /\ scheduler' = Initialized(scheduler, scheduled, bad)
    /\ SchedulerFrame

\* the exported stopAll()
StopAll ==
    /\ scheduler' = Stopped(scheduler)
    /\ SchedulerFrame

\* the exported restart(): stopAll, then initializeScheduler
Restart(scheduled, bad) ==
    /\ scheduler' = Initialized(Stopped(scheduler), scheduled, bad)
    /\ SchedulerFrame

\* ==================================================================== Init
Procs == {"p1", "p2"}

\* which department each counter serves
CounterLayouts ==
    {[c1 |-> "d1", c2 |-> "d1"], [c1 |-> "d1", c2 |-> "d2"]}

InitTokenSide(layouts) ==
    /\ tokens = <<>>
    /\ \E lay \in layouts :
          counters = [c \in CounterIds |->
                         [department |-> lay[c], status |-> "inactive",
                          currentToken |-> NoToken]]
    /\ now = 0
    /\ utcRolled = FALSE
    /\ pendingAutoCall = [c \in CounterIds |-> 0]
    /\ pendingResume = [c \in CounterIds |-> 0]
    /\ issue = [p \in Procs |-> IdleIssue]
    /\ calls = [c \in CounterIds |-> IdleCall]
    /\ adds = [a \in Procs |-> IdleAdd]
    /\ runs = [a \in Procs |-> IdleRun]
    /\ scheduler = NewScheduler
    /\ ret = Outcome("ok", NoToken)

UnusedProject == [state |-> "unused", status |-> "pending", priority |-> 0,
                  queueId |-> None, queuePosition |-> NoPos]

\* queues as createQueue stores them, with the schema defaults except type,
\* capacity and processingRules.autoStart
InitQueueSide(typings, autoStarts) ==
    /\ projects = [p \in ProjectIds |-> UnusedProject]
    /\ \E ty \in typings, au \in [QueueIds -> autoStarts] :
          queues = [q \in QueueIds |->
                       [type |-> ty[q], capacity |-> QueueCapacity,
                        status |-> "active", concurrency |-> 1,
                        currentSize |-> 0, processing |-> 0,
                        archived |-> FALSE, autoStart |-> au[q]]]


\* ======================================================= counter desk runs
\* Tokens are issued in d1, where both counters serve; the counters call,
\* complete and close, and the token controller calls, cancels and transfers.
Init ==
    /\ InitTokenSide({[c1 |-> "d1", c2 |-> "d1"]})
    /\ InitQueueSide({[q \in QueueIds |-> "priority"]}, {FALSE})

Next ==
    \/ \E pr \in Prios :
          Len(tokens) < LifeTokens /\ GenerateToken("d1", None, "u1", pr)
    \/ \E c \in CounterIds : OpenCounter(c)
    \/ \E c \in CounterIds : CloseCounter(c)
    \/ \E c \in CounterIds : CallNextToken(c)
    \/ \E c \in CounterIds : CompleteCurrentService(c, "notes")
    \/ \E c \in CounterIds : AutoCallNext(c)
    \/ \E t \in TokenIds, c \in CounterIds : TCCallToken(t, c)
    \/ \E t \in TokenIds : TCCancelToken(t)
    \/ \E t \in TokenIds : TCTransferToken(t, "d2", None)

Spec == Init /\ [][Next]_vars

\* ================================================== enqueue / remove runs
\* q1 of every type next to a fifo q2, filled and emptied by
\* addProjectToQueue, removeProjectFromQueue and deleteProject only.
InitQueueAR ==
    /\ InitTokenSide({[c1 |-> "d1", c2 |-> "d1"]})
    /\ InitQueueSide({[q1 |-> ty, q2 |-> "fifo"] : ty \in QueueTypes}, {FALSE})

NextQueueAR ==
    \/ \E p \in ProjectIds, pr \in Prios : CreateProject(p, pr)
    \/ \E q \in QueueIds, p \in ProjectIds : AddProjectToQueue(q, p)
    \/ \E q \in QueueIds, p \in ProjectIds : RemoveProjectFromQueue(q, p)
    \/ \E p \in ProjectIds : DeleteProject(p)

SpecQueueAR == InitQueueAR /\ [][NextQueueAR]_vars

\* C2: in every queue, whatever its type, the queuePosition values of the
\* queued projects are exactly 1..N, N being their number, with no gap and
\* no duplicate, after any run of addProject / removeProject / deleteProject.
C2_PositionContiguity ==
    \A q \in QueueIds :
        {projects[p].queuePosition : p \in Queued(q)}
            = 1..Cardinality(Queued(q))

\* a lifo queue holds two projects, the younger one in front, after another
\* project has been taken out of a queue
C2_Witness ==
    \E q \in QueueIds, p \in ProjectIds, o \in ProjectIds, r \in ProjectIds :
        /\ queues[q].type = "lifo"
        /\ Queued(q) = {p, o}
        /\ p < o
        /\ projects[o].queuePosition = 1
        /\ projects[p].queuePosition = 2
        /\ Exists(r) /\ projects[r].queueId = None
        /\ projects[r].status = "queued"

\* C10: under every queue type getNextProject returns the queued project at
\* queuePosition 1, and nothing exactly when no project is queued; likewise
\* the token callNextToken picks is the waiting token at queuePosition 1.
C10_NextSelection ==
    /\ \A q \in QueueIds :
          /\ GetNextProject(q) = {} <=> Queued(q) = {}
          /\ \A p \in GetNextProject(q) : projects[p].queuePosition = 1
    /\ \A d \in Depts :
          /\ NextTokenCandidates(d) = {} <=> WaitingIn(d) = {}
          /\ \A t \in NextTokenCandidates(d) : tokens[t].queuePosition = 1

\* =========================================== two counters calling at once
\* Tokens are issued in d1 first; then each counter runs callNextToken once,
\* the two runs interleaved at their awaits.
NextCallRace ==
    \/ \E pr \in Prios :
          /\ \A c \in CounterIds : calls[c] = IdleCall
          /\ GenerateToken("d1", None, "u1", pr)
    \/ \E c \in CounterIds : CNTFind(c)
    \/ \E c \in CounterIds : CNTSaveToken(c)
    \/ \E c \in CounterIds : CNTSaveCounter(c)

SpecCallRace == Init /\ [][NextCallRace]_vars

\* C1: when both counters have run callNextToken against a department with
\* exactly one waiting token, exactly one of them got that token and the
\* other got nothing; two calls never return the same token.
C1_NoDoubleCall ==
    (\A c \in CounterIds : calls[c].pc = "done") =>
        /\ \A c \in CounterIds, o \in CounterIds :
              c # o /\ calls[c].tok # NoToken => calls[c].tok # calls[o].tok
        /\ Len(tokens) = 1 =>
              \E c \in CounterIds :
                  /\ calls[c].tok = 1
                  /\ \A o \in CounterIds \ {c} : calls[o].tok = NoToken

\* C4: a counter's currentToken is a called or in_service token assigned to
\* that counter, every called or in_service token assigned to a counter is
\* that counter's currentToken, and no token is current at two counters.
C4_CounterTokenConsistency ==
    /\ \A c \in CounterIds :
          counters[c].currentToken # NoToken =>
              /\ counters[c].currentToken \in TokenIds
              /\ tokens[counters[c].currentToken].counter = c
              /\ tokens[counters[c].currentToken].status
                     \in {"called", "in_service"}
    /\ \A t \in TokenIds, c \in CounterIds :
          tokens[t].status \in {"called", "in_service"} /\ tokens[t].counter = c
              => counters[c].currentToken = t
    /\ \A c \in CounterIds, o \in CounterIds :
          c # o /\ counters[c].currentToken # NoToken
              => counters[c].currentToken # counters[o].currentToken

\* C9: a new token's queuePosition is the number of waiting tokens of its
\* department plus one, and callNextToken picks the waiting tokens in the
\* order they were issued, whatever their priorities.
C9_FifoOrder ==
    /\ [](\A d \in Depts : \A t \in NextTokenCandidates(d) :
             \A o \in WaitingIn(d) :
                 tokens[t].transferHistory = <<>>
                    /\ tokens[o].transferHistory = <<>> => t <= o)
    /\ [][Len(tokens') = Len(tokens) + 1 =>
             tokens'[Len(tokens')].queuePosition =
                 Cardinality(WaitingIn(tokens'[Len(tokens')].department)) + 1
         ]_vars

\* ===================================================== issuance runs
\* Two requests run Token.generateToken for d1 interleaved at its awaits,
\* next to the issuing handlers and the transfer handler; UTC midnight may
\* pass.
NextIssue ==
    \/ \E p \in Procs, cu \in Customers :
          GTNumber(p, "d1", None, cu, PriorityMin)
    \/ \E p \in Procs : GTCount(p)
    \/ \E p \in Procs : GTSave(p)
    \/ \E cu \in Customers : CustomerIssueToken(cu, "d1", None, PriorityMin)
    \/ \E cu \in Customers : CustGenerateToken(cu, "d1", PriorityMin)
    \/ \E cu \in Customers : TCGenerateToken(cu, "d1", PriorityMin)
    \/ \E t \in TokenIds : TCTransferToken(t, "d2", None)
    \/ UtcMidnight

SpecIssue == Init /\ [][NextIssue]_vars

\* C3: a customer never holds two active (waiting, called or in_service)
\* tokens of one business date, under any interleaving of issuance and
\* transfers.
C3_SingleActiveToken ==
    \A cu \in Customers :
        Cardinality({i \in TokenIds : /\ tokens[i].customer = cu
                                      /\ IsActive(tokens[i])}) <= 1

\* C7: no two tokens share a tokenNumber, and no two tokens issued by one
\* department on the business date share a displayNumber.
C7_UniqueNumbers ==
    \A i \in TokenIds, j \in TokenIds :
        i # j =>
            /\ tokens[i].tokenNumber # tokens[j].tokenNumber
            /\ tokens[i].tokenNumber.code = tokens[j].tokenNumber.code
                  => tokens[i].displayNumber # tokens[j].displayNumber

\* C8: the number of tokens issued for a department on the business date
\* never exceeds the department's maxTokensPerDay.
C8_DailyCapacity ==
    \A d \in Depts :
        Cardinality({i \in TokenIds : tokens[i].tokenNumber.code = d})
            <= MaxTokensPerDay

\* ===================================================== lifecycle runs
\* One token after another is issued and driven by the Token methods, the
\* token controller's handlers and the counters.
NextLifecycle ==
    \/ tokens = <<>> /\ GenerateToken("d1", None, "u1", PriorityMin)
    \/ \E c \in CounterIds : OpenCounter(c)
    \/ \E c \in CounterIds : CallNextToken(c)
    \/ \E c \in CounterIds : CompleteCurrentService(c, "notes")
    \/ \E c \in CounterIds : AutoCallNext(c)
    \/ \E t \in TokenIds, c \in CounterIds : TokenCallToken(t, c)
    \/ \E t \in TokenIds : TokenStartService(t)
    \/ \E t \in TokenIds : TokenCompleteService(t)
    \/ \E t \in TokenIds : TokenCancelToken(t)
    \/ \E t \in TokenIds : TokenMarkNoShow(t)
    \/ \E t \in TokenIds, d \in Depts : TokenTransferToken(t, d, None)
    \/ \E t \in TokenIds, c \in CounterIds : TCCallToken(t, c)
    \/ \E t \in TokenIds : TCServeToken(t)
    \/ \E t \in TokenIds : TCCompleteToken(t)
    \/ \E t \in TokenIds : TCCancelToken(t)
    \/ \E t \in TokenIds, d \in Depts : TCTransferToken(t, d, None)

SpecLifecycle == Init /\ [][NextLifecycle]_vars

\* C5: a token changes status only along waiting -> called, called ->
\* in_service, in_service -> completed, waiting|called -> cancelled,
\* waiting|called -> no_show, or by a transfer that takes a waiting, called
\* or in_service token to waiting in another department.
C5_LifecycleTransitions ==
    [][\A t \in TokenIds :
          LET a == tokens[t].status
              b == tokens'[t].status
              moved == tokens'[t].department # tokens[t].department
              steps == {<<"waiting", "called">>, <<"called", "in_service">>,
                        <<"in_service", "completed">>,
                        <<"waiting", "cancelled">>, <<"called", "cancelled">>,
                        <<"waiting", "no_show">>, <<"called", "no_show">>}
          IN  a # b \/ moved =>
                 \/ ~moved /\ <<a, b>> \in steps
                 \/ moved /\ a \in ActiveStatuses /\ b = "waiting"
      ]_vars

\* C6: a lifecycle operation invoked on a token whose status is not one of
\* the operation's source statuses fails and leaves every token and every
\* counter as it was.
C6_InvalidTransitionRejected ==
    [][LET Rejected == /\ ret'.res = "error"
                       /\ tokens' = tokens
                       /\ counters' = counters
       IN
       \A t \in TokenIds :
          /\ tokens[t].status # "waiting"
                /\ (\E c \in CounterIds :
                       TokenCallToken(t, c) \/ TCCallToken(t, c))
                => Rejected
          /\ tokens[t].status # "called"
                /\ (TokenStartService(t) \/ TCServeToken(t))
                => Rejected
          /\ tokens[t].status # "in_service"
                /\ (TokenCompleteService(t) \/ TCCompleteToken(t))
                => Rejected
          /\ tokens[t].status \notin {"waiting", "called"}
                /\ (TokenCancelToken(t) \/ TCCancelToken(t)
                       \/ TokenMarkNoShow(t))
                => Rejected
          /\ tokens[t].status \notin ActiveStatuses
                /\ (\E d \in Depts :
                       TokenTransferToken(t, d, None)
                          \/ TCTransferToken(t, d, None))
                => Rejected
      ]_vars

\* ================================================== queue processing runs
\* q1 of every type next to a priority q2, both with room for every project;
\* projects are enqueued, removed, and picked by processNextProject.
InitQueueProc ==
    /\ InitTokenSide({[c1 |-> "d1", c2 |-> "d1"]})
    /\ projects = [p \in ProjectIds |-> UnusedProject]
    /\ \E ty \in QueueTypes :
          queues = [q \in QueueIds |->
                       [type |-> IF q = "q1" THEN ty ELSE "priority",
                        capacity |-> MaxProjects,
                        status |-> "active", concurrency |-> 1,
                        currentSize |-> 0, processing |-> 0,
                        archived |-> FALSE, autoStart |-> FALSE]]

NextQueueProc ==
    \/ \E p \in ProjectIds, pr \in Prios : CreateProject(p, pr)
    \/ \E q \in QueueIds, p \in ProjectIds : AddProjectToQueue(q, p)
    \/ \E q \in QueueIds, p \in ProjectIds : RemoveProjectFromQueue(q, p)
    \/ \E q \in QueueIds : ProcessNextProject(q)

SpecQueueProc == InitQueueProc /\ [][NextQueueProc]_vars

\* C11: in a priority or weighted queue a project is enqueued at position
\* (number of queued projects of strictly higher priority) + 1, and after
\* any run of enqueue, remove and process-next every queued project of
\* strictly higher priority stands at a strictly smaller queuePosition than
\* every queued project of lower priority.
C11_PriorityOrdering ==
    /\ [](\A q \in QueueIds :
             queues[q].type \in {"priority", "weighted"} =>
                \A p \in Queued(q), o \in Queued(q) :
                    projects[p].priority > projects[o].priority =>
                        projects[p].queuePosition < projects[o].queuePosition)
    /\ [][\A q \in QueueIds, p \in ProjectIds :
             /\ queues[q].type \in {"priority", "weighted"}
             /\ projects[p].queueId # q
             /\ projects'[p].queueId = q
             => projects'[p].queuePosition =
                   Cardinality({o \in Queued(q) :
                       projects[o].priority > projects[p].priority}) + 1
         ]_vars

\* C12: cancelling a token that waits at position p takes it out of the
\* waiting set and lowers by exactly 1 the queuePosition of every waiting
\* token of its department that stood behind p, leaving the others as they
\* were.
C12_CancelCompaction ==
    [][\A t \in TokenIds :
          tokens[t].status = "waiting" /\ tokens'[t].status = "cancelled" =>
             \A o \in TokenIds \ {t} :
                 /\ tokens[o].status = "waiting"
                 /\ tokens[o].department = tokens[t].department
                 => tokens'[o].queuePosition =
                       IF tokens[o].queuePosition > tokens[t].queuePosition
                       THEN tokens[o].queuePosition - 1
                       ELSE tokens[o].queuePosition
      ]_vars

\* C13: transferring a waiting token from a department to another one, both
\* with contiguous waiting positions, takes it out of the origin's waiting
\* set and puts it into the destination's, and afterwards the waiting
\* positions of both departments are again exactly 1..N, without duplicates.
C13_TransferRoundTrip ==
    [][LET Contiguous(tk, d) ==
               LET w == {i \in DOMAIN tk : /\ tk[i].department = d
                                           /\ tk[i].status = "waiting"}
               IN  /\ {tk[i].queuePosition : i \in w} = 1..Cardinality(w)
                   /\ \A i \in w, j \in w :
                         i # j => tk[i].queuePosition # tk[j].queuePosition
       IN
       \A t \in TokenIds :
          /\ tokens[t].status = "waiting"
          /\ tokens'[t].department # tokens[t].department
          /\ Contiguous(tokens, tokens[t].department)
          /\ Contiguous(tokens, tokens'[t].department)
          => /\ tokens'[t].status = "waiting"
             /\ Contiguous(tokens', tokens[t].department)
             /\ Contiguous(tokens', tokens'[t].department)
      ]_vars

\* C14: a token has a queuePosition exactly when its status is waiting, and
\* a stored project has one exactly when its status is queued: call, cancel,
\* no-show, start of processing and completion leave no position behind.
C14_PositionIffWaiting ==
    /\ \A t \in TokenIds :
          tokens[t].queuePosition # NoPos <=> tokens[t].status = "waiting"
    /\ \A p \in ProjectIds :
          Exists(p) =>
             (projects[p].queuePosition # NoPos
                 <=> projects[p].status = "queued")

\* ===================================================== timed runs
\* One token is issued and called, served, completed, cancelled and
\* transferred while the clock advances.
NextTimed ==
    \/ tokens = <<>> /\ GenerateToken("d1", None, "u1", PriorityMin)
    \/ Tick
    \/ \E c \in CounterIds : OpenCounter(c)
    \/ \E c \in CounterIds : CallNextToken(c)
    \/ \E t \in TokenIds, c \in CounterIds : TCCallToken(t, c)
    \/ \E t \in TokenIds : TokenStartService(t)
    \/ \E t \in TokenIds : TokenCompleteService(t)
    \/ \E t \in TokenIds : TCCancelToken(t)
    \/ \E t \in TokenIds, d \in Depts : TCTransferToken(t, d, None)

SpecTimed == Init /\ [][NextTimed]_vars

\* C15: the timestamps a token carries are ordered: calledAt is not before
\* issuedAt, serviceStartedAt not before calledAt, completedAt not before
\* serviceStartedAt, whenever both are set.
C15_TimestampOrdering ==
    \A t \in TokenIds :
        /\ tokens[t].calledAt # Unset =>
              tokens[t].calledAt >= tokens[t].issuedAt
        /\ tokens[t].serviceStartedAt # Unset /\ tokens[t].calledAt # Unset =>
              tokens[t].serviceStartedAt >= tokens[t].calledAt
        /\ tokens[t].completedAt # Unset /\ tokens[t].serviceStartedAt # Unset
              => tokens[t].completedAt >= tokens[t].serviceStartedAt

\* C16: once a token is completed, cancelled or no_show, no operation
\* changes its status, its department or its counter.
C16_TerminalAbsorbing ==
    [][\A t \in TokenIds :
          tokens[t].status \in {"completed", "cancelled", "no_show"} =>
             /\ tokens'[t].status = tokens[t].status
             /\ tokens'[t].department = tokens[t].department
             /\ tokens'[t].counter = tokens[t].counter
      ]_vars

\* C17: callNextToken on a counter that already has a currentToken calls no
\* token and leaves the counter's currentToken and every token unchanged.
C17_CounterBusy ==
    [][\A c \in CounterIds :
          /\ counters[c].currentToken # NoToken
          /\ CallNextToken(c) \/ AutoCallNext(c)
          => /\ ret'.res # "ok"
             /\ tokens' = tokens
             /\ counters'[c].currentToken = counters[c].currentToken
      ]_vars

\* ===================================================== reorder runs
\* Two fifo queues are filled and emptied, and reordered by explicit lists.
InitReorder ==
    /\ InitTokenSide({[c1 |-> "d1", c2 |-> "d1"]})
    /\ InitQueueSide({[q \in QueueIds |-> "fifo"]}, {FALSE})

NextReorder ==
    \/ \E p \in ProjectIds : CreateProject(p, PriorityMin)
    \/ \E q \in QueueIds, p \in ProjectIds : AddProjectToQueue(q, p)
    \/ \E q \in QueueIds, p \in ProjectIds : RemoveProjectFromQueue(q, p)
    \/ \E q \in QueueIds, order \in ProjectOrders : ReorderQueue(q, order)

SpecReorder == InitReorder /\ [][NextReorder]_vars

\* C18: a reorder is applied only when the list names exactly the queued
\* projects of the queue, each once, and then their positions are 1..N in
\* the order given; with any other list the request fails and no
\* queuePosition changes.
C18_ReorderValidation ==
    [][\A q \in QueueIds, order \in ProjectOrders :
          ReorderQueue(q, order) =>
             IF /\ {order[k] : k \in 1..Len(order)} = Queued(q)
                /\ Len(order) = Cardinality(Queued(q))
             THEN /\ ret'.res = "ok"
                  /\ \A k \in 1..Len(order) :
                        projects'[order[k]].queuePosition = k
             ELSE /\ ret'.res = "error"
                  /\ \A p \in ProjectIds :
                        projects'[p].queuePosition = projects[p].queuePosition
      ]_vars

\* ===================================================== priority runs
\* Tokens are requested with priorities at and just beyond both ends of the
\* schema's range, through Token.generateToken and the issuing handlers.
RequestPrios == {PriorityMin - 1, PriorityMin, PriorityMax, PriorityMax + 1}

NextPriority ==
    \/ \E d \in Depts, pr \in RequestPrios : GenerateToken(d, None, "u1", pr)
    \/ \E d \in Depts, pr \in RequestPrios :
          CustomerIssueToken("u1", d, None, pr)
    \/ \E d \in Depts, pr \in RequestPrios : CustGenerateToken("u1", d, pr)
    \/ \E d \in Depts, pr \in RequestPrios : TCGenerateToken("u1", d, pr)
    \/ \E c \in CounterIds : OpenCounter(c)

SpecPriority == Init /\ [][NextPriority]_vars

C20_Lifo ==
    /\ [][\A q \in QueueIds, p \in ProjectIds :
             /\ queues[q].type = "lifo"
             /\ projects[p].queueId # q
             /\ projects'[p].queueId = q
             => /\ projects'[p].queuePosition = 1
                /\ \A o \in Queued(q) :
                      projects'[o].queuePosition =
                          projects[o].queuePosition + 1
         ]_vars
    /\ [](\A q \in QueueIds :
             queues[q].type = "lifo" =>
                \A p \in GetNextProject(q), o \in Queued(q) :
                    projects[p].queuePosition <= projects[o].queuePosition)

\* C21: next-token selection is determined by the waiting set: no two
\* waiting tokens of a department tie on (priority, queuePosition), the
\* query has at most one candidate, and of two waiting tokens of equal
\* priority issued in the department the one issued earlier stands first.
C21_DeterministicSelection ==
    \A d \in Depts :
        /\ Cardinality(NextTokenCandidates(d)) <= 1
        /\ \A i \in WaitingIn(d), j \in WaitingIn(d) :
              i < j /\ tokens[i].priority = tokens[j].priority =>
                 /\ tokens[i].queuePosition # tokens[j].queuePosition
                 /\ tokens[i].transferHistory = <<>>
                       /\ tokens[j].transferHistory = <<>>
                    => tokens[i].queuePosition < tokens[j].queuePosition

\* ==================================================== weighted queue runs
\* queueSchema.methods.updateStats: currentSize and processing recounted from
\* the projects of the queue (the scheduler runs it on every active queue)
UpdateStats(q) ==
    /\ queues' = [queues EXCEPT
                     ![q].currentSize = Cardinality(Queued(q)),
                     ![q].processing =
                         Cardinality({p \in InQueue(q) :
                                         projects[p].status = "in_progress"})]
    /\ ret' = Outcome("ok", NoToken)
    /\ UNCHANGED projects
    /\ TokenSide

\* a project that is being processed leaves the queue
FinishProject(q) ==
    \E p \in ProjectIds :
        projects[p].status = "in_progress" /\ RemoveProjectFromQueue(q, p)

\* A weighted q1: projects are created and enqueued, processNextProject picks,
\* processed projects leave the queue and may be enqueued again, and the
\* scheduler recounts the statistics.
InitWeighted ==
    /\ InitTokenSide({[c1 |-> "d1", c2 |-> "d1"]})
    /\ InitQueueSide({[q \in QueueIds |-> "weighted"]}, {FALSE})

NextWeighted ==
    \/ \E p \in ProjectIds, pr \in Prios : CreateProject(p, pr)
    \/ \E p \in ProjectIds : AddProjectToQueue("q1", p)
    \/ ProcessNextProject("q1")
    \/ FinishProject("q1")
    \/ UpdateStats("q1")

\* processNextProject keeps being issued, processed projects keep leaving and
\* the scheduler keeps recounting
SpecWeighted ==
    /\ InitWeighted
    /\ [][NextWeighted]_vars
    /\ WF_vars(ProcessNextProject("q1"))
    /\ WF_vars(FinishProject("q1"))
    /\ WF_vars(UpdateStats("q1"))

\* C22: no starvation under weighted ordering: while processNextProject keeps
\* being issued on a weighted queue, every queued project is eventually
\* picked for processing, even when higher-priority projects keep arriving.
C22_NoStarvation ==
    \A p \in ProjectIds :
        (p \in Queued("q1")) ~> (projects[p].status = "in_progress")

\* ================================================== concurrent enqueue runs
\* Two addProjectToQueue calls at a time on q1, of every type, each advancing
\* one await at a time.
InitAddRace ==
    /\ InitTokenSide({[c1 |-> "d1", c2 |-> "d1"]})
    /\ InitQueueSide({[q \in QueueIds |-> IF q = "q1" THEN ty ELSE "fifo"] :
                         ty \in QueueTypes}, {FALSE})

NextAddRace ==
    \/ \E p \in ProjectIds, pr \in Prios : CreateProject(p, pr)
    \/ \E a \in Procs, p \in ProjectIds : APFindQueue(a, "q1", p)
    \/ \E a \in Procs : APFindProject(a)
    \/ \E a \in Procs : APCount(a)
    \/ \E a \in Procs : APShift(a)
    \/ \E a \in Procs : APSaveProject(a)
    \/ \E a \in Procs : APSaveQueue(a)

SpecAddRace == InitAddRace /\ [][NextAddRace]_vars

\* C23: enqueues on one queue are serialized: once the concurrent
\* addProjectToQueue calls have returned, the queued projects of the queue
\* hold pairwise distinct positions, exactly 1..N.
C23_SerializedEnqueue ==
    (\A a \in Procs : adds[a].pc = "idle") =>
        \A q \in QueueIds :
            /\ \A i \in Queued(q), j \in Queued(q) :
                  i # j => projects[i].queuePosition # projects[j].queuePosition
            /\ {projects[p].queuePosition : p \in Queued(q)} =
                  1..Cardinality(Queued(q))

\* C24: compaction when an item is called: a processNextProject step that
\* picks a project of a queue whose queued positions are 1..N leaves the
\* remaining queued projects at exactly 1..N-1, and an enqueue on a fifo queue
\* gives the new project the position after the queued ones.
C24_CallCompaction ==
    [][\A q \in QueueIds, p \in ProjectIds :
          LET after == {o \in ProjectIds : /\ projects'[o].state = "stored"
                                           /\ projects'[o].queueId = q
                                           /\ projects'[o].status = "queued"}
          IN  /\ /\ p \in Queued(q)
                 /\ projects'[p].status = "in_progress"
                 /\ {projects[o].queuePosition : o \in Queued(q)} =
                       1..Cardinality(Queued(q))
                 => {projects'[o].queuePosition : o \in after} =
                       1..(Cardinality(Queued(q)) - 1)
              /\ /\ queues[q].type = "fifo"
                 /\ projects[p].queueId # q
                 /\ p \in after
                 => projects'[p].queuePosition = Cardinality(Queued(q)) + 1
      ]_vars

\* ================================================ persistence failure runs
\* the store operations of addProject that write, in the order they run
AddSteps == {"updateMany", "project.save", "queue.save"}

\* queueService.addProjectToQueue when the store rejects one operation of
\* addProject: the operations before it have been applied, the error is thrown
\* to the caller
AddProjectFailsAt(q, p, step) ==
    /\ Exists(p)
    /\ ~queues[q].archived
    /\ projects[p].queueId = None
    /\ CanAcceptProject(q, p) = "ok"
    /\ step = "updateMany" => queues[q].type \in {"lifo", "priority", "weighted"}
    /\ LET position == AddPosition(q, p, queues[q].currentSize + 1)
           shifted == AddShifted(q, p, position)
       IN  projects' =
              CASE step = "updateMany" -> projects
                [] step = "project.save" ->
                      [o \in ProjectIds |->
                          IF o \in shifted
                          THEN [projects[o] EXCEPT !.queuePosition = @ + 1]
                          ELSE projects[o]]
                [] step = "queue.save" -> AddProjectDocs(q, p)
    /\ queues' = queues
    /\ ret' = Outcome("error", NoToken)
    /\ TokenSide

\* the store operations of callNextToken that write
CallSteps == {"token.save", "counter.save"}

\* counterSchema.methods.callNextToken when the store rejects one of its saves
CallNextTokenFailsAt(c, step) ==
    /\ \E t \in NextTokenCandidates(counters[c].department) :
          tokens' = IF step = "token.save"
                    THEN tokens
                    ELSE [tokens EXCEPT ![t] = CallTokenDoc(@, c)]
    /\ ret' = Outcome("error", NoToken)
    /\ UNCHANGED <<counters, now, utcRolled, pendingAutoCall, pendingResume>>
    /\ UNCHANGED procVars /\ UNCHANGED queueVars

\* Tokens are issued in d1 and called by c1, projects are enqueued on q1 of
\* every type, and any store operation of the two handlers may be rejected.
InitFailure ==
    /\ InitTokenSide({[c1 |-> "d1", c2 |-> "d1"]})
    /\ InitQueueSide({[q \in QueueIds |-> IF q = "q1" THEN ty ELSE "fifo"] :
                         ty \in QueueTypes}, {FALSE})

NextFailure ==
    \/ Len(tokens) < LifeTokens /\ GenerateToken("d1", None, "u1", PriorityMin)
    \/ CallNextToken("c1")
    \/ \E step \in CallSteps : CallNextTokenFailsAt("c1", step)
    \/ \E p \in ProjectIds : CreateProject(p, PriorityMin)
    \/ \E p \in ProjectIds : AddProjectToQueue("q1", p)
    \/ \E p \in ProjectIds, step \in AddSteps :
          /\ \A o \in ProjectIds : projects[o].queuePosition <= MaxProjects
          /\ AddProjectFailsAt("q1", p, step)

SpecFailure == InitFailure /\ [][NextFailure]_vars

\* C25: all-or-nothing on persistence failure: a call of addProjectToQueue or
\* callNextToken that ends in an error leaves tokens, counters, projects and
\* queues as they were before the call.
C25_AllOrNothing ==
    [][ret'.res = "error" =>
          UNCHANGED <<tokens, counters, projects, queues>>]_vars

\* C26: transfer effects: a successful transfer of a waiting, called or
\* in_service token appends exactly one transferHistory entry naming the old
\* and the new department and the old counter (earlier entries unchanged),
\* moves the token to the new department with no counter and status waiting,
\* and no counter keeps the token as its currentToken.
C26_TransferEffects ==
    [][\A t \in TokenIds, d \in Depts :
          /\ TCTransferToken(t, d, None)
          /\ ret'.res = "ok"
          /\ IsActive(tokens[t])
          => LET old == tokens[t].transferHistory
                 new == tokens'[t].transferHistory
             IN  /\ Len(new) = Len(old) + 1
                 /\ SubSeq(new, 1, Len(old)) = old
                 /\ new[Len(new)].fromDepartment = tokens[t].department
                 /\ new[Len(new)].toDepartment = d
                 /\ new[Len(new)].fromCounter = tokens[t].counter
                 /\ tokens'[t].department = d
                 /\ tokens'[t].counter = None
                 /\ tokens'[t].status = "waiting"
                 /\ \A c \in CounterIds : counters'[c].currentToken # t
      ]_vars

\* ===================================================== policy change runs
\* queueService.updateQueue with updateData {type}: the caller owns the queue;
\* getQueueById does not find an archived queue; queue.save() validates
UpdateQueue(q, type) ==
    /\ IF queues[q].archived \/ type \notin QueueTypes
       THEN /\ ret' = Outcome("error", NoToken)
            /\ UNCHANGED queues
       ELSE /\ queues' = [queues EXCEPT ![q].type = type]
            /\ ret' = Outcome("ok", NoToken)
    /\ UNCHANGED projects
    /\ TokenSide

\* q1 of every type, with room for every project: projects are enqueued on
\* it and removed from it, and its type is changed.
InitPolicy ==
    /\ InitTokenSide({[c1 |-> "d1", c2 |-> "d1"]})
    /\ projects = [p \in ProjectIds |-> UnusedProject]
    /\ \E ty \in QueueTypes :
          queues = [q \in QueueIds |->
                       [type |-> IF q = "q1" THEN ty ELSE "fifo",
                        capacity |-> MaxProjects,
                        status |-> "active", concurrency |-> 1,
                        currentSize |-> 0, processing |-> 0,
                        archived |-> FALSE, autoStart |-> FALSE]]

NextPolicy ==
    \/ \E p \in ProjectIds, pr \in Prios : CreateProject(p, pr)
    \/ \E p \in ProjectIds : AddProjectToQueue("q1", p)
    \/ \E p \in ProjectIds : RemoveProjectFromQueue("q1", p)
    \/ \E ty \in QueueTypes \cup {"unknown"} : UpdateQueue("q1", ty)

SpecPolicy == InitPolicy /\ [][NextPolicy]_vars

\* C27: a policy change is not retroactive: an updateQueue that changes the
\* type of a queue leaves the queuePosition of every project unchanged, and
\* the project getNextProject selects after the change is the one it selected
\* before.
C27_PolicyNotRetroactive ==
    [][\A q \in QueueIds, ty \in QueueTypes :
          UpdateQueue(q, ty) /\ ret'.res = "ok" =>
             /\ \A p \in ProjectIds :
                   projects'[p].queuePosition = projects[p].queuePosition
             /\ GetNextProject(q)' = GetNextProject(q)
      ]_vars

\* ================================================== two busy queues runs
\* the projectOrder arrays used in these runs: each lists projects once
BusyOrders ==
    UNION {{order \in [1..n -> 1..BusyProjects] :
               \A j \in 1..n, k \in 1..n : j # k => order[j] # order[k]} :
           n \in 1..BusyProjects}

\* a lifo or priority q1 (the types whose enqueue shifts other projects) next
\* to a fifo q2: projects of the lowest and the highest priority are enqueued
\* on both and removed from both, picked from q1 and reordered on q1, and
\* deleted.
InitTwoQueues ==
    /\ InitTokenSide({[c1 |-> "d1", c2 |-> "d1"]})
    /\ InitQueueSide({[q \in QueueIds |-> IF q = "q1" THEN ty ELSE "fifo"] :
                         ty \in {"lifo", "priority"}}, {FALSE})

NextTwoQueues ==
    \/ \E p \in 1..BusyProjects, pr \in {PriorityMin, PriorityMax} :
          CreateProject(p, pr)
    \/ \E q \in QueueIds, p \in ProjectIds : AddProjectToQueue(q, p)
    \/ \E q \in QueueIds, p \in ProjectIds : RemoveProjectFromQueue(q, p)
    \/ ProcessNextProject("q1")
    \/ \E order \in BusyOrders : ReorderQueue("q1", order)
    \/ \E p \in ProjectIds : DeleteProject(p)

SpecTwoQueues == InitTwoQueues /\ [][NextTwoQueues]_vars

LastPadded == 10^PadWidth - 1

\* the token with the highest number issued so far in d1, long since served;
\* the tokens issued before it, which sort below it, are left out
ServedToken(n) ==
    [NewToken([tokenNumber |-> [code |-> "d1", date |-> 0,
                                suffix |-> PadStart(n)],
               displayNumber |-> [code |-> "d1", suffix |-> PadStart(n)]],
              "u1", "d1", None, PriorityMin, 1, "staff")
        EXCEPT !.status = "completed"]

\* A business day at its start, or after LastPadded tokens were issued in d1:
\* tokens are issued one at a time in both departments, and cancelled.
InitSequence ==
    /\ now = 0
    /\ utcRolled = FALSE
    /\ tokens \in {<<>>, <<ServedToken(LastPadded)>>}
    /\ counters = [c \in CounterIds |->
                      [department |-> "d1", status |-> "inactive",
                       currentToken |-> NoToken]]
    /\ pendingAutoCall = [c \in CounterIds |-> 0]
    /\ pendingResume = [c \in CounterIds |-> 0]
    /\ issue = [p \in Procs |-> IdleIssue]
    /\ calls = [c \in CounterIds |-> IdleCall]
    /\ adds = [a \in Procs |-> IdleAdd]
    /\ runs = [a \in Procs |-> IdleRun]
    /\ scheduler = NewScheduler
    /\ ret = Outcome("ok", NoToken)
    /\ InitQueueSide({[q \in QueueIds |-> "priority"]}, {FALSE})

NextSequence ==
    \/ \E d \in Depts, cust \in Customers :
          GenerateToken(d, None, cust, PriorityMin)
    \/ \E t \in TokenIds : TCCancelToken(t)

SpecSequence == InitSequence /\ [][NextSequence]_vars

\* C29: sequence generator: for every department, generateTokenNumber returns
\* the highest numeric suffix issued in the department on the business date
\* plus one (1 when none was issued), a number no stored token carries,
\* also past the padded width and whatever the tokens' statuses.
C29_SequenceGenerator ==
    \A d \in Depts :
        LET issued == {ParseInt(tokens[i].tokenNumber.suffix) :
                          i \in {j \in TokenIds :
                                    /\ tokens[j].tokenNumber.code = d
                                    /\ tokens[j].tokenNumber.date = DateStr}}
            highest == IF issued = {} THEN 0
                       ELSE CHOOSE n \in issued : \A m \in issued : m <= n
            num == GenerateTokenNumber(d).tokenNumber
        IN  /\ ParseInt(num.suffix) = highest + 1
            /\ \A i \in TokenIds : tokens[i].tokenNumber # num

\* ======================================================= wait-time estimate
\* serviceTime as the pre-save hook stores it, in minutes (0: not stored)
ServiceTime(t) ==
    IF t.completedAt # Unset /\ t.serviceStartedAt # Unset
    THEN t.completedAt - t.serviceStartedAt
    ELSE 0

RECURSIVE SumServiceTime(_)
SumServiceTime(ids) ==
    IF ids = {} THEN 0
    ELSE LET i == CHOOSE j \in ids : TRUE
         IN  ServiceTime(tokens[i]) + SumServiceTime(ids \ {i})

\* baseTime when no completed token has a service time
DefaultBaseTime == 10

\* the value given to the priority filter: priority === 'high' ? 'high' :
\* priority === 'urgent' ? 'urgent' : 'normal'; priorities are numbers, so it
\* is 'normal'
PriorityFilter(priority) == "normal"

\* whether a filter value casts to the Number path priority
CastsToNumber(v) == v \notin {"high", "urgent", "normal"}

\* calculateEstimatedWaitTime: Math.round(waitingCount * baseTime), or the
\* CastError of countDocuments
CalculateEstimatedWaitTime(dept, priority) ==
    LET done == {i \in TokenIds : /\ tokens[i].department = dept
                                  /\ tokens[i].status = "completed"
                                  /\ ServiceTime(tokens[i]) > 0}
        n == Cardinality(done)
        bound == PriorityFilter(priority)
    IN  IF ~CastsToNumber(bound)
        THEN [res |-> "CastError", minutes |-> 0]
        ELSE LET waitingCount ==
                     Cardinality({i \in WaitingIn(dept) :
                                     tokens[i].priority <= bound})
             IN  [res |-> "ok",
                  minutes |-> IF n = 0 THEN waitingCount * DefaultBaseTime
                              ELSE (2 * waitingCount * SumServiceTime(done) + n)
                                      \div (2 * n)]

\* C30: wait-time estimate: for a department with waiting tokens the estimate
\* is the number of waiting tokens of equal or higher priority times the
\* department's average service time, 10 minutes when no token was completed.
C30_WaitEstimate ==
    \A d \in Depts, p \in Prios :
        WaitingIn(d) # {} =>
           LET ahead == Cardinality({i \in WaitingIn(d) :
                                        tokens[i].priority >= p})
               done == {i \in TokenIds : /\ tokens[i].department = d
                                         /\ tokens[i].status = "completed"
                                         /\ ServiceTime(tokens[i]) > 0}
               n == Cardinality(done)
               est == CalculateEstimatedWaitTime(d, p)
           IN  /\ est.res = "ok"
               /\ est.minutes =
                     IF n = 0 THEN ahead * DefaultBaseTime
                     ELSE (2 * ahead * SumServiceTime(done) + n) \div (2 * n)

\* ============================================ concurrent processing runs
\* Two processNextProject calls at a time on the fifo q1 (the route, the
\* auto-start, resumeQueue and the scheduler all go through this function),
\* each advancing one await at a time.
InitProcRace ==
    /\ InitTokenSide({[c1 |-> "d1", c2 |-> "d1"]})
    /\ projects = [p \in ProjectIds |-> UnusedProject]
    /\ queues = [q \in QueueIds |->
                    [type |-> "fifo", capacity |-> MaxProjects,
                     status |-> "active", concurrency |-> 1,
                     currentSize |-> 0, processing |-> 0,
                     archived |-> FALSE, autoStart |-> FALSE]]

NextProcRace ==
    \/ \E p \in ProjectIds, pr \in Prios : CreateProject(p, pr)
    \/ \E p \in ProjectIds : AddProjectToQueue("q1", p)
    \/ \E a \in Procs : PNFindQueue(a, "q1")
    \/ \E a \in Procs : PNGetNext(a)
    \/ \E a \in Procs : PNSaveProject(a)
    \/ \E a \in Procs : PNSaveQueue(a)

SpecProcRace == InitProcRace /\ [][NextProcRace]_vars

\* C31: concurrency limit: in every state the number of in_progress projects
\* of a queue is at most the queue's concurrency, and, when no
\* processNextProject call is in flight, stats.processing equals that number.
C31_ConcurrencyLimit ==
    \A q \in QueueIds :
        LET running == {p \in InQueue(q) : projects[p].status = "in_progress"}
        IN  /\ Cardinality(running) <= queues[q].concurrency
            /\ (\A a \in Procs : runs[a].pc = "idle") =>
                  queues[q].processing = Cardinality(running)

\* ====================================================== accounting runs
\* q1 of every type next to a fifo q2, both of capacity QueueCapacity:
\* projects are enqueued on q1, removed, picked, deleted, and q1 is archived.
NextAccounting ==
    \/ \E p \in ProjectIds, pr \in Prios : CreateProject(p, pr)
    \/ \E p \in ProjectIds : AddProjectToQueue("q1", p)
    \/ \E p \in ProjectIds : RemoveProjectFromQueue("q1", p)
    \/ ProcessNextProject("q1")
    \/ \E p \in ProjectIds : DeleteProject(p)
    \/ ArchiveQueue("q1")

SpecAccounting == InitQueueAR /\ [][NextAccounting]_vars

\* C32: queue size accounting: in every state stats.currentSize of a queue is
\* the number of its queued projects and at most its capacity, and an
\* addProjectToQueue on a queue whose currentSize equals its capacity fails
\* and changes nothing.
C32_SizeAccounting ==
    /\ [](\A q \in QueueIds :
             /\ queues[q].currentSize = Cardinality(Queued(q))
             /\ queues[q].currentSize <= queues[q].capacity)
    /\ [][\A q \in QueueIds, p \in ProjectIds :
             /\ AddProjectToQueue(q, p)
             /\ queues[q].currentSize = queues[q].capacity
             => /\ ret'.res = "error"
                /\ UNCHANGED <<projects, queues>>
         ]_vars

\* ============================================================== pause gate
\* One fifo queue of concurrency 1; processNextProject from the route, from
\* the loop of resumeQueue and from the scheduled task, one await per step,
\* next to pauseQueue.
NextPause ==
    \/ \E p \in ProjectIds, pr \in Prios : CreateProject(p, pr)
    \/ \E p \in ProjectIds : AddProjectToQueue("q1", p)
    \/ PauseQueue("q1")
    \/ \E a \in Procs : PNFindQueue(a, "q1")
    \/ \E a \in Procs : PNGetNext(a)
    \/ \E a \in Procs : PNSaveProject(a)
    \/ \E a \in Procs : PNSaveQueue(a)
    \/ \E a \in Procs : RQFindQueue(a, "q1")
    \/ \E a \in Procs : RQSave(a)
    \/ \E a \in Procs : QueueTask(a, "q1", 0)
    \/ \E a \in Procs : QueueTask(a, "q1", queues["q1"].processing)
    \/ \E a \in Procs : LoopExit(a)
    \/ \E a \in Procs : TaskSave(a)

SpecPause == InitProcRace /\ [][NextPause]_vars

\* C33: pause gate: no step turns a queued project of a queue whose status
\* is not active into an in_progress one, and a processNextProject call that
\* finds its queue not active returns null and changes no project or queue.
C33_PauseGate ==
    [][/\ \A p \in ProjectIds :
             /\ projects[p].status = "queued"
             /\ projects'[p].status = "in_progress"
             /\ projects[p].queueId \in QueueIds
             => queues[projects[p].queueId].status = "active"
       /\ \A a \in Procs, q \in QueueIds :
             /\ queues[q].status # "active"
             /\ PNFindQueue(a, q)
             => /\ runs[a].caller = "route" => ret'.res = "null"
                /\ runs'[a].pc \in {"idle", "tasksave"}
                /\ UNCHANGED <<projects, queues>>
      ]_vars

\* ============================================================ counter breaks
\* The desk of two counters of d1 with breaks: tokens are issued, the counters
\* open, close, take breaks, call and complete, and both timers fire.
NextBreak ==
    \/ \E pr \in Prios :
          Len(tokens) < LifeTokens /\ GenerateToken("d1", None, "u1", pr)
    \/ \E c \in CounterIds : OpenCounter(c)
    \/ \E c \in CounterIds : CloseCounter(c)
    \/ \E c \in CounterIds, duration \in {0, 1} : TakeBreak(c, duration)
    \/ \E c \in CounterIds : BreakResume(c)
    \/ \E c \in CounterIds : CallNextToken(c)
    \/ \E c \in CounterIds : CompleteCurrentService(c, "notes")
    \/ \E c \in CounterIds : AutoCallNext(c)

SpecBreak == Init /\ [][NextBreak]_vars

\* C34: closed counter stays closed: a step that is not the operator's
\* openCounter (or takeBreak) leaves a closed counter closed and without a
\* current token, in particular a step of either timer, and no step makes a
\* token called at a counter that is closed or on break.
C34_ClosedStaysClosed ==
    [][/\ \A c \in CounterIds :
             counters[c].status = "closed"
             => \/ OpenCounter(c)
                \/ \E duration \in {0, 1} : TakeBreak(c, duration)
                \/ /\ counters'[c].status = "closed"
                   /\ counters'[c].currentToken = NoToken
       /\ \A t \in TokenIds, c \in CounterIds :
             /\ tokens[t].status # "called"
             /\ tokens'[t].status = "called"
             /\ tokens'[t].counter = c
             => counters[c].status \notin {"closed", "break"}
      ]_vars

\* ======================================================== membership runs
\* Two queues (q1 lifo or priority, q2 fifo): projects are enqueued on and
\* removed from either, q1 starts projects and is archived.
NextMembership ==
    \/ \E p \in 1..BusyProjects : CreateProject(p, PriorityMin)
    \/ \E q \in QueueIds, p \in ProjectIds : AddProjectToQueue(q, p)
    \/ \E q \in QueueIds, p \in ProjectIds : RemoveProjectFromQueue(q, p)
    \/ ProcessNextProject("q1")
    \/ ArchiveQueue("q1")

SpecMembership == InitTwoQueues /\ [][NextMembership]_vars

NextArchive ==
    LET quiet == \A a \in Procs : runs[a].pc = "idle"
    IN  \/ /\ quiet
           /\ \/ \E p \in 1..BusyProjects, pr \in {PriorityMin, PriorityMax} :
                    CreateProject(p, pr)
              \/ \E p \in ProjectIds : AddProjectToQueue("q1", p)
              \/ \E p \in ProjectIds : RemoveProjectFromQueue("q1", p)
              \/ ProcessNextProject("q1")
              \/ \E p \in ProjectIds : DeleteProject(p)
              \/ PauseQueue("q1")
              \/ UpdateQueue("q1", "fifo")
              \/ ArchiveQueue("q1")
              \/ RQFindQueue("p1", "q1")
        \/ RQSave("p1")
        \/ runs["p1"].pc = "loop" /\ PNFindQueue("p1", "q1")
        \/ PNGetNext("p1")
        \/ PNSaveProject("p1")
        \/ PNSaveQueue("p1")
        \/ LoopExit("p1")

SpecArchive == InitQueueAR /\ [][NextArchive]_vars

\* C36: archive empties the queue: an archived queue has status disabled and
\* no queued project; a successful archiveQueue leaves every formerly queued
\* project pending with neither queueId nor queuePosition; every later
\* addProjectToQueue on the queue fails with 'Queue not found or archived'
\* and changes nothing, and no later step starts a project of the queue.
C36_ArchiveEmpties ==
    /\ [](\A q \in QueueIds :
             queues[q].archived =>
                /\ queues[q].status = "disabled"
                /\ Queued(q) = {})
    /\ [][\A q \in QueueIds :
             /\ \/ \A p \in Queued(q) :
                      /\ projects'[p].status = "pending"
                      /\ projects'[p].queueId = None
                      /\ projects'[p].queuePosition = NoPos
                \/ ~ (~queues[q].archived /\ ArchiveQueue(q))
             /\ queues[q].archived =>
                /\ \A p \in ProjectIds :
                      \/ /\ ret'.res = "error"
                         /\ AddProjectToQueueError(q, p) =
                               "Queue not found or archived"
                         /\ UNCHANGED <<projects, queues>>
                      \/ ~AddProjectToQueue(q, p)
                /\ \A p \in InQueue(q) :
                      projects'[p].status = "in_progress"
                      => projects[p].status = "in_progress"
                /\ \/ ret'.res = "null" /\ UNCHANGED <<projects, queues>>
                   \/ ~ProcessNextProject(q)
         ]_vars

\* q1 has been archived while one of its projects was being processed and
\* another was queued, and a later call on it has been refused
C36_Witness ==
    /\ queues["q1"].archived
    /\ ret.res \in {"error", "null"}
    /\ \E p \in ProjectIds, o \in ProjectIds :
          /\ projects[p].status = "in_progress"
          /\ projects[p].queueId = "q1"
          /\ Exists(o)
          /\ projects[o].status = "pending"
          /\ projects[o].queueId = None

\* ========================================================= auto-call runs
\* Two counters of d1: tokens are issued and cancelled, the counters call and
\* complete, and a timer started by completeCurrentService fires in the end
\* (setTimeout runs its callback once the 2 seconds have passed).
NextAutoCall ==
    \/ /\ Len(tokens) < LifeTokens
       /\ GenerateToken("d1", None, "u1", CustomerPriority)
    \/ \E c \in CounterIds : OpenCounter(c)
    \/ \E c \in CounterIds : CallNextToken(c)
    \/ \E c \in CounterIds : CompleteCurrentService(c, "notes")
    \/ \E c \in CounterIds : AutoCallNext(c)
    \/ \E t \in TokenIds : TCCancelToken(t)

SpecAutoCall ==
    /\ Init
    /\ [][NextAutoCall]_vars
    /\ \A c \in CounterIds : WF_vars(AutoCallNext(c))

InitDrain ==
    /\ InitTokenSide({[c1 |-> "d1", c2 |-> "d1"]})
    /\ projects = [p \in ProjectIds |-> UnusedProject]
    /\ \E k \in {1, QueueCapacity} :
          queues = [q \in QueueIds |->
                       [type |-> "fifo", capacity |-> QueueCapacity,
                        status |-> "active", concurrency |-> k,
                        currentSize |-> 0, processing |-> 0,
                        archived |-> FALSE, autoStart |-> FALSE]]

NextDrain ==
    LET quiet == \A a \in Procs : runs[a].pc = "idle"
        noDesk == tokens = <<>> /\ \A c \in CounterIds : calls[c] = IdleCall
        noQueue == quiet /\ \A p \in ProjectIds : projects[p] = UnusedProject
    IN  \/ /\ noDesk /\ quiet
           /\ \/ \E p \in 1..BusyProjects : CreateProject(p, PriorityMin)
              \/ \E p \in ProjectIds : AddProjectToQueue("q1", p)
              \/ ProcessNextProject("q1")
              \/ FinishProject("q1")
              \/ UpdateStats("q1")
              \/ PauseQueue("q1")
              \/ RQFindQueue("p1", "q1")
              \/ QueueTask("p1", "q1", 0)
              \/ QueueTask("p1", "q1", queues["q1"].processing)
        \/ RQSave("p1")
        \/ LoopCall("p1")
        \/ PNGetNext("p1")
        \/ PNSaveProject("p1")
        \/ PNSaveQueue("p1")
        \/ LoopExit("p1")
        \/ TaskSave("p1")
        \/ /\ noQueue
           /\ \/ /\ Len(tokens) < LifeTokens
                 /\ \A c \in CounterIds : calls[c] = IdleCall
                 /\ GenerateToken("d1", None, "u1", CustomerPriority)
              \/ \E c \in CounterIds : CNTFind(c)
              \/ \E c \in CounterIds : CNTSaveToken(c)
              \/ \E c \in CounterIds : CNTSaveCounter(c)
              \/ \E c \in CounterIds : CNTReturn(c)

SpecDrain ==
    /\ InitDrain
    /\ [][NextDrain]_vars
    /\ WF_vars(RQSave("p1"))
    /\ WF_vars(LoopCall("p1"))
    /\ WF_vars(PNGetNext("p1"))
    /\ WF_vars(PNSaveProject("p1"))
    /\ WF_vars(PNSaveQueue("p1"))
    /\ WF_vars(LoopExit("p1"))
    /\ WF_vars(TaskSave("p1"))
    /\ \A c \in CounterIds :
          /\ WF_vars(CNTSaveToken(c))
          /\ WF_vars(CNTSaveCounter(c))
          /\ WF_vars(CNTReturn(c))

\* C38: draining loops terminate: a run of the loop of resumeQueue or of the
\* scheduled task ends, and has started at most concurrency minus the
\* queue's stats.processing at its start; a callNextToken that has begun
\* returns, with a token or with none.
C38_DrainingTerminates ==
    /\ [](\A a \in Procs :
             runs[a].caller # "route" =>
                runs[a].started <=
                   Max0(queues[runs[a].q].concurrency - runs[a].first))
    /\ \A a \in Procs : (runs[a].pc # "idle") ~> (runs[a].pc = "idle")
    /\ \A c \in CounterIds :
          (calls[c].pc # "idle")
          ~> (calls[c].pc = "idle" /\ ret.res \in {"ok", "null"})

\* the loop has started as many projects as the concurrency left room for,
\* and a project is still queued
C38_Witness ==
    /\ runs["p1"].pc = "loop"
    /\ runs["p1"].started >= 1
    /\ runs["p1"].started =
          queues["q1"].concurrency - runs["p1"].first
    /\ Queued("q1") # {}

\* =========================================================== scheduler runs
\* The singleton is initialized, stopped and restarted, queue schedules are
\* added and removed, and addTask is called on it directly; a call that may
\* create a cron task waits for room under every name.
NextScheduler ==
    \/ /\ \A n \in TaskNames : scheduler.made[n] < MaxCron
       /\ \/ \E scheduled \in SUBSET QueueIds, bad \in SUBSET QueueIds :
                bad \subseteq scheduled /\ InitializeScheduler(scheduled, bad)
          \/ \E scheduled \in SUBSET QueueIds :
                Restart(scheduled, {})
          \/ \E q \in QueueIds, enabled \in BOOLEAN, valid \in BOOLEAN :
                SchedulerAddQueueSchedule(q, enabled, valid)
          \/ \E name \in {"process-queues", "queue-q1"}, valid \in BOOLEAN :
                SchedulerAddTask(name, valid)
    \/ \E q \in QueueIds : RemoveQueueSchedule(q)
    \/ StopAll

SpecScheduler == Init /\ [][NextScheduler]_vars

\* C39: scheduler task registry: under every name at most one cron task is
\* running, and it is the registered one; addTask under a registered name
\* changes nothing; addQueueSchedule leaves the queue's previous task stopped
\* and at most one new task registered; initializeScheduler on an initialized
\* scheduler changes nothing; stopAll leaves no task registered or running and
\* initialized false, and restart leaves every core task registered and
\* running, created once by the restart.
C39_TaskRegistry ==
    /\ [](\A n \in TaskNames :
             /\ Cardinality(scheduler.running[n]) <= 1
             /\ scheduler.running[n] =
                   IF scheduler.tasks[n] = 0 THEN {} ELSE {scheduler.tasks[n]})
    /\ [][/\ \A n \in TaskNames, valid \in BOOLEAN :
                scheduler.tasks[n] # 0 /\ SchedulerAddTask(n, valid)
                => UNCHANGED scheduler
          /\ \A q \in QueueIds, enabled \in BOOLEAN, valid \in BOOLEAN :
                SchedulerAddQueueSchedule(q, enabled, valid)
                => LET n == QueueTaskName(q)
                   IN  /\ scheduler.tasks[n] \notin scheduler'.running[n]
                       /\ scheduler'.made[n] <= scheduler.made[n] + 1
                       /\ enabled /\ valid => scheduler'.tasks[n] # 0
          /\ \A scheduled \in SUBSET QueueIds, bad \in SUBSET QueueIds :
                scheduler.initialized /\ InitializeScheduler(scheduled, bad)
                => UNCHANGED scheduler
          /\ StopAll
             => /\ \A n \in TaskNames :
                      /\ scheduler'.tasks[n] = 0
                      /\ scheduler'.running[n] = {}
                /\ ~scheduler'.initialized
          /\ \A scheduled \in SUBSET QueueIds :
                Restart(scheduled, {})
                => /\ scheduler'.initialized
                   /\ \A n \in CoreTasks :
                         /\ scheduler'.made[n] = scheduler.made[n] + 1
                         /\ scheduler'.running[n] = {scheduler'.tasks[n]}
                         /\ scheduler'.tasks[n] = scheduler'.made[n]
         ]_vars

\* the scheduler has been restarted with the schedule of q1 replaced: every
\* core task and the task of q1 are the second ones created under their names
C39_Witness ==
    /\ scheduler.initialized
    /\ \A n \in CoreTasks \cup {"queue-q1"} :
          /\ scheduler.tasks[n] = MaxCron
          /\ scheduler.running[n] = {MaxCron}

====
